---- MODULE Spec2Model ----
(***************************************************************************)
(* Model of the DOI reference extractor: the cited-DOI extraction          *)
(* (services/doiService.ts), the bounded worker pool and the retrying      *)
(* fetch (services/citationService.ts) and the resolution session          *)
(* (hooks/useDoiReferences.ts).                                            *)
(*                                                                         *)
(* Strings the code takes apart are sequences of one-character strings, so *)
(* that split, startsWith and replace are computed and not assumed.        *)
(***************************************************************************)
EXTENDS Integers, Sequences, FiniteSets, TLC

VARIABLES
  \* extractCitedDois, called on its own
  exTokens,      \* ghost: per edge, the identifier tokens the bundle was built from
  exRefs,        \* the Reference[] argument
  exOut,         \* the returned string[]
  exPc,          \* "ready" | "done"
  \* one activation of mapWithConcurrency: its arguments, locals and workers
  pool,
  completionOrder, \* ghost: the indices in the order their calls settled
  rejections,    \* ghost: the calls that rejected, in order, with their workers
  \* one activation of fetchWithRetry
  maxRetries,    \* the argument (6 when omitted)
  attempt,       \* the loop counter
  lastError,     \* the last caught error, [set |-> FALSE] while undefined
  fwPc,          \* "idle" | "fetching" | "sleeping" | "returned" | "thrown"
  fwResult,      \* the response returned or the error thrown
  delayMs,       \* the argument of the sleep in progress
  fetchCalls,    \* ghost: how many times fetch was invoked
  sleeps,        \* ghost: how many sleeps were started
  seen,          \* ghost: how many attempts ended in each status (0: threw)
  lastOutcome,   \* ghost: how the latest attempt ended
  \* the session of useDoiReferences and one activation of fetchReferences
  state,         \* the DoiReferencesState held by useState
  frPc,          \* "idle" | "awaitRefs" | "awaitTitle" | "awaitMeta" | "done"
  frDoi,         \* the argument doi
  citedDois,     \* the local citedDois
  tickTimer,     \* TRUE while the interval of tickTimer is set
  uiUpdated,     \* FALSE while lastUiUpdate is still 0
  lastCompleted, \* the local lastCompleted
  apiTokens,     \* ghost: per edge of the response, the tokens of its cited bundle
  refsOutcome,   \* ghost: "none" | "failed" | "list" | "object"
  failedItems,   \* ghost: the indices whose metadata fetch failed
  requests,      \* ghost: requests issued by this call, by kind
  \* an earlier activation of fetchReferences that is still in flight
  earlier,       \* its position and locals, [pc |-> "idle"] when there is none
  \* one activation of generateCitations or downloadReferences
  pk,            \* its position, arguments and locals
  \* the HomePage component
  page,          \* the route parameter, the rendered mainDoi and what it called
  \* getFilenameFromDoiRef, called on its own
  fn,            \* the DoiReference argument and the returned filename
  \* getPaperMetadata or convertDoiToCitation, called on its own
  bd,            \* the callee, its arguments, what fetchWithRetry gave, the outcome
  \* cslToBibtex or cslToRis, called on its own
  cf,            \* the arguments, the key and the lines of the output
  \* generateCitations, called again while earlier calls are in flight
  gc             \* the locals of the calls, in the order they were started

exVars == <<exTokens, exRefs, exOut, exPc>>
\* pool is shared by the pool on its own and the session; the ghost is not
mapVars == <<completionOrder, rejections>>

fwVars == <<maxRetries, attempt, lastError, fwPc, fwResult, delayMs, fetchCalls,
            sleeps, seen, lastOutcome>>

frVars == <<state, frPc, frDoi, citedDois, tickTimer, uiUpdated, lastCompleted,
            apiTokens, refsOutcome, failedItems, requests>>

\* What the parts above leave alone
restVars == <<earlier, pk, page, fn, bd, cf, gc>>

vars == <<exTokens, exRefs, exOut, exPc, pool, completionOrder, rejections, maxRetries, attempt, lastError,
          fwPc, fwResult, delayMs, fetchCalls, sleeps, seen, lastOutcome,
          state, frPc, frDoi, citedDois, tickTimer, uiUpdated, lastCompleted,
          apiTokens, refsOutcome, failedItems, requests,
          earlier, pk, page, fn, bd, cf, gc>>

-----------------------------------------------------------------------------
(* Bounds of the model *)

MaxEdges == 2
MaxTokens == 2
MaxItems == 3
MaxConcurrency == 3
MaxRetriesArg == 3
MaxRefs == 3

-----------------------------------------------------------------------------
(* Strings *)

Max(a, b) == IF a >= b THEN a ELSE b
Min(a, b) == IF a <= b THEN a ELSE b

SPACE == " "
DOI_PREFIX == <<"d", "o", "i", ":">>

\* The identifier tokens the citation-graph API is modelled to send: two DOIs
\* and an identifier that contains "doi:" without starting with it.
TokDoiA == <<"d", "o", "i", ":", "a">>
TokDoiB == <<"d", "o", "i", ":", "b">>
TokOther == <<"x", "d", "o", "i", ":", "a">>
TokenSet == {TokDoiA, TokDoiB, TokOther}

\* Array.prototype.join(' ') of the tokens: how the API builds a bundle
RECURSIVE Join(_, _)
Join(toks, sep) ==
  IF toks = <<>> THEN <<>>
  ELSE IF Len(toks) = 1 THEN toks[1]
  ELSE toks[1] \o <<sep>> \o Join(Tail(toks), sep)

\* String.prototype.split(sep) for a one-character separator: every separator
\* ends a part, empty parts are kept, and the empty string gives one empty part
RECURSIVE SplitFrom(_, _, _, _)
SplitFrom(s, sep, i, cur) ==
  IF i > Len(s) THEN <<cur>>
  ELSE IF s[i] = sep THEN <<cur>> \o SplitFrom(s, sep, i + 1, <<>>)
  ELSE SplitFrom(s, sep, i + 1, Append(cur, s[i]))

Split(s, sep) == SplitFrom(s, sep, 1, <<>>)

\* String.prototype.startsWith
StartsWith(s, p) ==
  /\ Len(s) >= Len(p)
  /\ SubSeq(s, 1, Len(p)) = p

\* String.prototype.indexOf, 1-based, 0 when absent
IndexOf(s, p) ==
  LET hits == {i \in 1..(Len(s) - Len(p) + 1) : SubSeq(s, i, i + Len(p) - 1) = p}
  IN IF hits = {} THEN 0 ELSE CHOOSE i \in hits : \A j \in hits : i <= j

\* String.prototype.replace with a string pattern: the first occurrence only
ReplaceFirst(s, p, r) ==
  LET i == IndexOf(s, p)
  IN IF i = 0 THEN s
     ELSE SubSeq(s, 1, i - 1) \o r \o SubSeq(s, i + Len(p), Len(s))

-----------------------------------------------------------------------------
(* The parts of the model that are not running *)

NoValue == [kind |-> "none"]

FwIdle ==
  /\ maxRetries = 0
  /\ attempt = 0
  /\ lastError = [set |-> FALSE]
  /\ fwPc = "idle"
  /\ fwResult = NoValue
  /\ delayMs = 0
  /\ fetchCalls = 0
  /\ sleeps = 0
  /\ seen = <<>>
  /\ lastOutcome = NoValue

NoCall == [pc |-> "idle"]

EarlierIdle == earlier = NoCall
PkIdle == pk = NoCall
PageIdle == page = NoCall
FnIdle == fn = NoCall
BdIdle == bd = NoCall

CfIdle == cf = NoCall
GcIdle == gc = NoCall
RestIdle == EarlierIdle /\ PkIdle /\ PageIdle /\ FnIdle /\ BdIdle /\ CfIdle /\ GcIdle

NULL == "<null>"   \* JavaScript's null where a string may stand

\* useState's initial value (citationText is a text made by join: the list of
\* the pieces joined, and '' is the empty list)
InitialState ==
  [isLoading |-> FALSE, error |-> NULL, progress |-> 0, mainDoi |-> "",
   paperTitle |-> NULL, references |-> <<>>, citationText |-> <<>>,
   generatingCitations |-> FALSE]

NoRequests == [references |-> 0, title |-> 0, metadata |-> 0]

FrIdle ==
  /\ state = InitialState
  /\ frPc = "idle"
  /\ frDoi = ""
  /\ citedDois = <<>>
  /\ tickTimer = FALSE
  /\ uiUpdated = FALSE
  /\ lastCompleted = 0
  /\ apiTokens = <<>>
  /\ refsOutcome = "none"
  /\ failedItems = {}
  /\ requests = NoRequests

-----------------------------------------------------------------------------
(* extractCitedDois *)

\* Sequences over S of length at most n
SeqsUpTo(S, n) == UNION {[1..k -> S] : k \in 0..n}

\* A Reference as sent by the API: its cited bundle joins the tokens by spaces
EdgeOf(toks) == [cited |-> Join(toks, SPACE)]

\* The inner loop without its break: every part starting with doi: is pushed
RECURSIVE FirstDoiPart_NoBreak(_, _)
FirstDoiPart_NoBreak(parts, i) ==
  IF i > Len(parts) THEN <<>>
  ELSE IF StartsWith(parts[i], DOI_PREFIX)
       THEN <<ReplaceFirst(parts[i], DOI_PREFIX, <<>>)>>
              \o FirstDoiPart_NoBreak(parts, i + 1)
       ELSE FirstDoiPart_NoBreak(parts, i + 1)

\* The inner loop: the first part starting with doi:, prefix replaced by ''
\* (<<>> when no part does)
RECURSIVE FirstDoiPart(_, _)
FirstDoiPart(parts, i) ==
  IF i > Len(parts) THEN <<>>
  ELSE IF StartsWith(parts[i], DOI_PREFIX)
       THEN <<ReplaceFirst(parts[i], DOI_PREFIX, <<>>)>>
       ELSE FirstDoiPart(parts, i + 1)

\* One iteration of the outer loop: what ref pushes onto dois
RefDois(ref) ==
  IF ref.cited # <<>>
  THEN FirstDoiPart(Split(ref.cited, SPACE), 1)
  ELSE <<>>

RECURSIVE ExtractFrom(_, _)
ExtractFrom(references, i) ==
  IF i > Len(references) THEN <<>>
  ELSE RefDois(references[i]) \o ExtractFrom(references, i + 1)

\* An extraction that keeps only the first occurrence of each DOI
RECURSIVE Dedup(_)
Dedup(s) ==
  IF s = <<>> THEN <<>>
  ELSE LET init == Dedup(SubSeq(s, 1, Len(s) - 1))
           last == s[Len(s)]
       IN IF \E k \in 1..Len(init) : init[k] = last THEN init ELSE Append(init, last)

extractCitedDois_Dedup(references) == Dedup(ExtractFrom(references, 1))

extractCitedDois(references) == ExtractFrom(references, 1)

ExIdle ==
  /\ exTokens = <<>>
  /\ exRefs = <<>>
  /\ exOut = <<>>
  /\ exPc = "idle"

ExInit ==
  /\ RestIdle
  /\ pool = [status |-> "idle"]
  /\ completionOrder = <<>>
  /\ rejections = <<>>
  /\ FwIdle
  /\ FrIdle
  /\ exTokens \in SeqsUpTo(SeqsUpTo(TokenSet, MaxTokens), MaxEdges)
  /\ exRefs = [i \in 1..Len(exTokens) |-> EdgeOf(exTokens[i])]
  /\ exOut = <<>>
  /\ exPc = "ready"

ExtractCall ==
  /\ exPc = "ready"
  /\ exOut' = extractCitedDois(exRefs)
  /\ exPc' = "done"
  /\ UNCHANGED <<exTokens, exRefs, pool, mapVars>>
  /\ UNCHANGED <<fwVars, frVars, restVars>>

SpecExtract == ExInit /\ [][ExtractCall]_vars

(* What the extraction is to return, stated on the tokens the bundles were
   built from *)

IsDoiToken(t) == Len(t) >= 4 /\ t[1] = "d" /\ t[2] = "o" /\ t[3] = "i" /\ t[4] = ":"
HasDoiToken(toks) == \E j \in 1..Len(toks) : IsDoiToken(toks[j])
FirstDoiIndex(toks) ==
  CHOOSE j \in 1..Len(toks) :
    IsDoiToken(toks[j]) /\ \A h \in 1..(j - 1) : ~IsDoiToken(toks[h])
\* The first doi: token of a bundle, without its prefix
FirstDoiOf(toks) ==
  LET t == toks[FirstDoiIndex(toks)] IN [k \in 1..(Len(t) - 4) |-> t[k + 4]]

RECURSIVE ExpectedDois(_)
ExpectedDois(edges) ==
  IF edges = <<>> THEN <<>>
  ELSE (IF HasDoiToken(edges[1]) THEN <<FirstDoiOf(edges[1])>> ELSE <<>>)
         \o ExpectedDois(Tail(edges))

\* C7: extractCitedDois emits, for every edge whose cited bundle holds a token
\* starting with doi:, exactly the first such token without the prefix, and
\* nothing for an edge with no such token.
C7_FirstDoiTokenPerEdge ==
  exPc = "done" => exOut = ExpectedDois(exTokens)

\* One edge citing "doi:b doi:a" has given exactly ["b"].
C7_Witness ==
  /\ exPc = "done"
  /\ exTokens = <<(<<TokDoiB, TokDoiA>>)>>
  /\ exOut = <<(<<"b">>)>>

CarryingEdges == {i \in 1..Len(exTokens) : HasDoiToken(exTokens[i])}
\* The k-th edge, in edge order, that carries a doi: token
KthCarrier(k) ==
  CHOOSE i \in CarryingEdges : Cardinality({h \in CarryingEdges : h <= i}) = k
Occurrences(s, d) == Cardinality({k \in 1..Len(s) : s[k] = d})

\* C8: extractCitedDois does not deduplicate: the output has one entry per edge
\* carrying a doi: token, in edge order, and a DOI cited through several edges
\* appears once per such edge.
C8_NoDeduplication ==
  exPc = "done" =>
    /\ Len(exOut) = Cardinality(CarryingEdges)
    /\ \A k \in 1..Len(exOut) : exOut[k] = FirstDoiOf(exTokens[KthCarrier(k)])
    /\ \A i \in CarryingEdges :
         LET d == FirstDoiOf(exTokens[i])
         IN Occurrences(exOut, d) =
              Cardinality({h \in CarryingEdges : FirstDoiOf(exTokens[h]) = d})

\* Two edges citing the same DOI have given that DOI twice.
C8_Witness ==
  /\ exPc = "done"
  /\ Len(exOut) = 2
  /\ Len(exTokens) = 2
  /\ exOut[1] = exOut[2]

-----------------------------------------------------------------------------
(* mapWithConcurrency *)

\* A JavaScript array: its length and its filled slots, indexed from 0
NewArray(n) == [length |-> n, slot |-> [k \in {} |-> 0]]
ArraySet(arr, i, v) ==
  [length |-> Max(arr.length, i + 1),
   slot |-> [k \in (DOMAIN arr.slot) \cup {i} |-> IF k = i THEN v ELSE arr.slot[k]]]

RemoveAt(s, k) == SubSeq(s, 1, k - 1) \o SubSeq(s, k + 1, Len(s))

\* Array.from({ length: Math.max(1, concurrency) }, ...)
NumWorkers(concurrency) == Max(1, concurrency)

\* The worker's loop with the await dropped: it claims every remaining index
\* and calls mapper for each without waiting for any of them
RECURSIVE WorkerRun_NoAwait(_, _)
WorkerRun_NoAwait(p, w) ==
  IF p.nextIndex < Len(p.items)
  THEN WorkerRun_NoAwait(
         [p EXCEPT !.cur[w] = p.nextIndex,
                   !.nextIndex = p.nextIndex + 1,
                   !.inflight = Append(p.inflight,
                                  [worker |-> w,
                                   item |-> p.items[p.nextIndex + 1],
                                   index |-> p.nextIndex])], w)
  ELSE [p EXCEPT !.cur[w] = -1]

\* The worker's loop without nextIndex += 1: the index it read stays there
\* for the next worker to read
WorkerRun_KeepsCursor(p, w) ==
  IF p.nextIndex < Len(p.items)
  THEN [p EXCEPT !.cur[w] = p.nextIndex,
                 !.inflight = Append(p.inflight,
                                [worker |-> w,
                                 item |-> p.items[p.nextIndex + 1],
                                 index |-> p.nextIndex])]
  ELSE [p EXCEPT !.cur[w] = -1]

\* A worker at the head of its loop, run to its next suspension: it claims the
\* next index and calls mapper(items[currentIndex], currentIndex), or leaves
\* the loop (cur = -1) once the cursor has reached the end
WorkerRun(p, w) ==
  IF p.nextIndex < Len(p.items)
  THEN [p EXCEPT !.cur[w] = p.nextIndex,
                 !.nextIndex = p.nextIndex + 1,
                 !.inflight = Append(p.inflight,
                                [worker |-> w,
                                 item |-> p.items[p.nextIndex + 1],
                                 index |-> p.nextIndex])]
  ELSE [p EXCEPT !.cur[w] = -1]

RECURSIVE StartWorkers(_, _)
StartWorkers(p, w) ==
  IF w > p.workers THEN p ELSE StartWorkers(WorkerRun(p, w), w + 1)

\* await Promise.all(workers); return results
Finish(p) ==
  IF p.status = "running" /\ \A w \in 1..p.workers : p.cur[w] = -1
  THEN [p EXCEPT !.status = "resolved", !.returned = p.results]
  ELSE p

\* The synchronous part of a call: the locals, then every worker up to its
\* first await
PoolStart(items, concurrency, hasOnItemDone) ==
  Finish(StartWorkers(
    [status |-> "running",
     items |-> items,
     concurrency |-> concurrency,
     hasOnItemDone |-> hasOnItemDone,
     workers |-> NumWorkers(concurrency),
     results |-> NewArray(Len(items)),
     nextIndex |-> 0,
     completed |-> 0,
     cur |-> [w \in 1..NumWorkers(concurrency) |-> -1],
     inflight |-> <<>>,
     onItemDoneCalls |-> <<>>,
     returned |-> NewArray(0),
     error |-> NoValue], 1))

\* The result written where the shared cursor points instead of at the
\* worker's own currentIndex
StoreResult_AtCursor(p, w, v) == ArraySet(p.results, p.nextIndex, v)

\* results[currentIndex] = <the value mapper resolved to>
StoreResult(p, w, v) == ArraySet(p.results, p.cur[w], v)

\* The continuation reporting before it counts: onItemDone gets the count
\* of the items completed before this one
PoolResume_ReportsFirst(p, k, v) ==
  LET w == p.inflight[k].worker
      stored == [p EXCEPT !.inflight = RemoveAt(p.inflight, k),
                          !.results = StoreResult(p, w, v),
                          !.completed = p.completed + 1,
                          !.onItemDoneCalls =
                             IF p.hasOnItemDone
                             THEN Append(p.onItemDoneCalls,
                                         <<p.completed, Len(p.items)>>)
                             ELSE p.onItemDoneCalls]
  IN Finish(WorkerRun(stored, w))

\* The continuation of the worker whose mapper call, the k-th in flight,
\* resolved to v: store, count, report, and go round the loop
PoolResume(p, k, v) ==
  LET w == p.inflight[k].worker
      stored == [p EXCEPT !.inflight = RemoveAt(p.inflight, k),
                          !.results = StoreResult(p, w, v),
                          !.completed = p.completed + 1,
                          !.onItemDoneCalls =
                             IF p.hasOnItemDone
                             THEN Append(p.onItemDoneCalls,
                                         <<p.completed + 1, Len(p.items)>>)
                             ELSE p.onItemDoneCalls]
  IN Finish(WorkerRun(stored, w))

\* A rejection taken for a completion without a value: the slot stays empty
\* and the worker goes round its loop
PoolReject_Absorbs(p, k, e) ==
  LET w == p.inflight[k].worker
      counted == [p EXCEPT !.inflight = RemoveAt(p.inflight, k),
                           !.completed = p.completed + 1]
  IN Finish(WorkerRun(counted, w))

\* The worker whose mapper call, the k-th in flight, rejected with e: the
\* await throws, the worker's promise rejects and, if it is the first to do
\* so, so does Promise.all; the other workers are not told
PoolReject(p, k, e) ==
  LET w == p.inflight[k].worker
  IN [p EXCEPT !.inflight = RemoveAt(p.inflight, k),
               !.cur[w] = -1,
               !.status = IF p.status = "running" THEN "rejected" ELSE @,
               !.error = IF p.status = "running" THEN e ELSE @]

(* The pool on its own, with a mapper that resolves to a value naming the
   arguments it was called with, or rejects with an error naming them *)

ItemSet == {"a", "b"}
MapperValue(item, index) == [item |-> item, index |-> index]
MapperError(item, index) == [kind |-> "error", item |-> item, index |-> index]

MapInit ==
  /\ RestIdle
  /\ ExIdle
  /\ FwIdle
  /\ FrIdle
  /\ pool = [status |-> "idle"]
  /\ completionOrder = <<>>
  /\ rejections = <<>>

MapCall ==
  /\ pool.status = "idle"
  /\ \E items \in SeqsUpTo(ItemSet, MaxItems), concurrency \in 0..MaxConcurrency,
        hasOnItemDone \in BOOLEAN :
       pool' = PoolStart(items, concurrency, hasOnItemDone)
  /\ completionOrder' = <<>>
  /\ rejections' = <<>>
  /\ UNCHANGED <<exVars, fwVars, frVars, restVars>>

\* A mapper call resolves
MapperSettle ==
  /\ pool.status \in {"running", "rejected"}
  /\ \E k \in 1..Len(pool.inflight) :
       /\ pool' = PoolResume(pool, k,
                    MapperValue(pool.inflight[k].item, pool.inflight[k].index))
       /\ completionOrder' = Append(completionOrder, pool.inflight[k].index)
  /\ UNCHANGED rejections
  /\ UNCHANGED <<exVars, fwVars, frVars, restVars>>

\* A mapper call rejects
MapperRejects ==
  /\ pool.status \in {"running", "rejected"}
  /\ \E k \in 1..Len(pool.inflight) :
       /\ pool' = PoolReject(pool, k,
                    MapperError(pool.inflight[k].item, pool.inflight[k].index))
       /\ completionOrder' = Append(completionOrder, pool.inflight[k].index)
       /\ rejections' = Append(rejections,
                           [index |-> pool.inflight[k].index,
                            worker |-> pool.inflight[k].worker])
  /\ UNCHANGED <<exVars, fwVars, frVars, restVars>>

MapNext == MapCall \/ MapperSettle \/ MapperRejects

SpecMap == MapInit /\ [][MapNext]_vars

\* C1: whatever the concurrency and the completion order, the resolved result
\* has the length of items and result[i] is what mapper(items[i], i) resolved to.
C1_OrderedResults ==
  pool.status = "resolved" =>
    /\ pool.returned.length = Len(pool.items)
    /\ DOMAIN pool.returned.slot = 0..(Len(pool.items) - 1)
    /\ \A i \in 0..(Len(pool.items) - 1) :
         pool.returned.slot[i] = MapperValue(pool.items[i + 1], i)

\* Two workers over three items, resolved although item 1 completed before item 0.
C1_Witness ==
  /\ pool.status = "resolved"
  /\ Len(pool.items) = 3
  /\ pool.workers = 2
  /\ completionOrder = <<1, 0, 2>>

\* C2: at most max(1, concurrency) mapper calls are in flight, each worker has
\* at most one, and a worker claims a new index only once the call for its
\* current index has settled.
C2_BoundedInFlight ==
  /\ [](pool.status # "idle" =>
          /\ Len(pool.inflight) <= Max(1, pool.concurrency)
          /\ \A j, k \in 1..Len(pool.inflight) :
               pool.inflight[j].worker = pool.inflight[k].worker => j = k)
  /\ [][(pool.status = "running" /\ pool'.status = "running") =>
          \A w \in 1..pool.workers :
            (pool'.cur[w] # pool.cur[w] /\ pool.cur[w] # -1) =>
               \A k \in 1..Len(pool'.inflight) :
                  pool'.inflight[k].index # pool.cur[w]]_vars

\* Concurrency 2 over three items with two calls in flight and the third
\* item claimed after a first call settled.
C2_Witness ==
  /\ pool.status = "running"
  /\ pool.concurrency = 2
  /\ Len(pool.items) = 3
  /\ Len(pool.inflight) = 2
  /\ pool.nextIndex = 3

-----------------------------------------------------------------------------
(* fetchWithRetry *)

DEFAULT_MAX_RETRIES == 6
BACKOFF_BASE_MS == 750
JITTER_RANGE_MS == 250

THREW == 0   \* the key of seen under which attempts that threw are counted

StatusSet == {200, 404, 500, 429, 503, 504}
\* Retry-After as headers.get returns it: null when absent, else its text
NoHeader == [present |-> FALSE, text |-> ""]
HeaderSet == {NoHeader} \cup [present : {TRUE}, text : {"0", "2", "-1", "abc"}]
Responses == [kind : {"response"}, status : StatusSet, retryAfter : HeaderSet]
\* What a rejected fetch throws: an Error instance (TypeError) or another value
Errors == [kind : {"error"}, isError : BOOLEAN]
GenericError == [kind |-> "error", isError |-> TRUE, message |-> "Failed to fetch"]
\* Math.floor(Math.random() * 250): the two ends of 0..249
JitterSet == {0, JITTER_RANGE_MS - 1}

RECURSIVE Pow2(_)
Pow2(n) == IF n = 0 THEN 1 ELSE 2 * Pow2(n - 1)

\* Number(text) for the header texts of the model; finite is Number.isFinite
NumberOf(text) ==
  CASE text = "0" -> [finite |-> TRUE, value |-> 0]
    [] text = "2" -> [finite |-> TRUE, value |-> 2]
    [] text = "-1" -> [finite |-> TRUE, value |-> -1]
    [] OTHER -> [finite |-> FALSE, value |-> 0]

\* 500 taken for a status to retry
IsRetryable_With500(status) == status \in {429, 500, 503, 504}

\* res.status is 429, 503 or 504
IsRetryable(status) == status = 429 \/ status = 503 \/ status = 504

\* 750 * Math.pow(2, attempt)
BackoffMs(n) == BACKOFF_BASE_MS * Pow2(n)

\* retryAfterSeconds and baseDelayMs
BaseDelayMs(res, n) ==
  LET retryAfterSeconds ==
        IF res.retryAfter.present /\ res.retryAfter.text # ""
        THEN NumberOf(res.retryAfter.text)
        ELSE [finite |-> FALSE, value |-> 0]
  IN IF retryAfterSeconds.finite
     THEN Max(0, retryAfterSeconds.value) * 1000
     ELSE BackoffMs(n)

\* The exhausted-retries return left out: the last retryable response is
\* slept on like the others, and the loop then ends in the throw
AfterResponse_NoLastReturn(res, n, max) ==
  IF ~IsRetryable(res.status) THEN "return" ELSE "sleep"

\* What the try block does with a response: return it, or sleep and go on
AfterResponse(res, n, max) ==
  IF ~IsRetryable(res.status) THEN "return"
  ELSE IF n = max THEN "return"
  ELSE "sleep"

\* The catch block giving up one attempt early
AfterError_OneShort(n, max) == IF n >= max - 1 THEN "break" ELSE "sleep"

\* The catch block sleeping after the last attempt as after the others
AfterError_SleepsLast(n, max) == "sleep"

\* What the catch block does: break out of the loop, or sleep and go on
AfterError(n, max) == IF n = max THEN "break" ELSE "sleep"

\* The throw behind the loop always making a new Error
ThrownValue_AlwaysNew(err) == GenericError

\* throw lastError instanceof Error ? lastError : new Error('Failed to fetch')
ThrownValue(err) == IF err.set /\ err.value.isError THEN err.value ELSE GenericError

Count(outcome) == IF outcome.kind = "error" THEN THREW ELSE outcome.status
Seen0 == [k \in StatusSet \cup {THREW} |-> 0]

\* The for statement's test and the fetch that starts the next attempt, or
\* the throw behind the loop
LoopHead(n) ==
  IF n <= maxRetries
  THEN /\ attempt' = n
       /\ fwPc' = "fetching"
       /\ fetchCalls' = fetchCalls + 1
       /\ fwResult' = fwResult
  ELSE /\ attempt' = n
       /\ fwPc' = "thrown"
       /\ fetchCalls' = fetchCalls
       /\ fwResult' = ThrownValue(lastError)

FwInit ==
  /\ RestIdle
  /\ ExIdle
  /\ pool = [status |-> "idle"]
  /\ completionOrder = <<>>
  /\ rejections = <<>>
  /\ FwIdle
  /\ FrIdle

\* fetchWithRetry(url, init, maxRetries) up to its first await
FwCall ==
  /\ fwPc = "idle"
  /\ \E max \in (0..MaxRetriesArg) \cup {DEFAULT_MAX_RETRIES} :
       /\ maxRetries' = max
       /\ attempt' = 0
       /\ fwPc' = "fetching"
       /\ fetchCalls' = 1
  /\ seen' = Seen0
  /\ UNCHANGED <<lastError, fwResult, delayMs, sleeps, lastOutcome>>
  /\ UNCHANGED <<exVars, pool, mapVars, frVars, restVars>>

\* await fetch(url, init) fulfils with a response
FetchResponds ==
  /\ fwPc = "fetching"
  /\ \E res \in Responses, jitter \in JitterSet :
       /\ lastOutcome' = res
       /\ seen' = [seen EXCEPT ![res.status] = @ + 1]
       /\ IF AfterResponse(res, attempt, maxRetries) = "return"
          THEN /\ fwPc' = "returned"
               /\ fwResult' = res
               /\ UNCHANGED <<delayMs, sleeps>>
          ELSE /\ fwPc' = "sleeping"
               /\ delayMs' = BaseDelayMs(res, attempt) + jitter
               /\ sleeps' = sleeps + 1
               /\ UNCHANGED fwResult
  /\ UNCHANGED <<maxRetries, attempt, lastError, fetchCalls>>
  /\ UNCHANGED <<exVars, pool, mapVars, frVars, restVars>>

\* await fetch(url, init) rejects
FetchThrows ==
  /\ fwPc = "fetching"
  /\ \E err \in Errors, jitter \in JitterSet :
       /\ lastOutcome' = err
       /\ seen' = [seen EXCEPT ![THREW] = @ + 1]
       /\ lastError' = [set |-> TRUE, value |-> err]
       /\ IF AfterError(attempt, maxRetries) = "break"
          THEN /\ fwPc' = "thrown"
               /\ fwResult' = ThrownValue([set |-> TRUE, value |-> err])
               /\ UNCHANGED <<delayMs, sleeps>>
          ELSE /\ fwPc' = "sleeping"
               /\ delayMs' = BackoffMs(attempt) + jitter
               /\ sleeps' = sleeps + 1
               /\ UNCHANGED fwResult
  /\ UNCHANGED <<maxRetries, attempt, fetchCalls>>
  /\ UNCHANGED <<exVars, pool, mapVars, frVars, restVars>>

\* The sleep's timer fires: attempt++ and the next turn of the loop
SleepEnds ==
  /\ fwPc = "sleeping"
  /\ LoopHead(attempt + 1)
  /\ UNCHANGED <<maxRetries, lastError, delayMs, sleeps, seen, lastOutcome>>
  /\ UNCHANGED <<exVars, pool, mapVars, frVars, restVars>>

FwNext == FwCall \/ FetchResponds \/ FetchThrows \/ SleepEnds

SpecRetry == FwInit /\ [][FwNext]_vars

Attempts == seen[THREW] + seen[200] + seen[404] + seen[500]
              + seen[429] + seen[503] + seen[504]
RetryableSeen == seen[429] + seen[503] + seen[504]
Ended == fwPc \in {"returned", "thrown"}

RetryableStatuses == {429, 503, 504}

\* C3: when the attempts so far all yielded 429, 503 or 504 and the next one
\* yields any other status, that response is returned and fetch was invoked
\* exactly once per attempt (k + 1 times, k <= maxRetries); the call does not
\* end before such an attempt while fewer than maxRetries + 1 were made.
C3_ReturnsFirstOtherStatus ==
  /\ (/\ lastOutcome.kind = "response"
      /\ lastOutcome.status \notin RetryableStatuses
      /\ seen[THREW] = 0)
       => /\ fwPc = "returned"
          /\ fwResult = lastOutcome
          /\ RetryableSeen <= maxRetries
          /\ fetchCalls = RetryableSeen + 1
  /\ (Ended /\ lastOutcome.kind = "response" /\ RetryableSeen = Attempts)
       => Attempts = maxRetries + 1

\* 429 three times, then 200: the 200 is returned after exactly 4 invocations.
C3_Witness ==
  /\ fwPc = "returned"
  /\ seen[429] = 3
  /\ Attempts = 4
  /\ fwResult.kind = "response" /\ fwResult.status = 200
  /\ fetchCalls = 4

\* C4: when all maxRetries + 1 attempts yielded a retryable status, the call
\* has returned (not raised) the last response, after maxRetries + 1 invocations.
C4_ExhaustedReturnsLastResponse ==
  (fwPc # "idle" /\ RetryableSeen = maxRetries + 1 /\ Attempts = RetryableSeen)
    => /\ fwPc = "returned"
       /\ fwResult = lastOutcome
       /\ fwResult.status \in RetryableStatuses
       /\ fetchCalls = maxRetries + 1

\* The default six retries exhausted on retryable statuses, the last a 503.
C4_Witness ==
  /\ fwPc = "returned"
  /\ maxRetries = 6
  /\ RetryableSeen = 7
  /\ fwResult.kind = "response" /\ fwResult.status = 503

\* C5: when all maxRetries + 1 attempts threw, the call has raised an error
\* (the last one caught, or the generic 'Failed to fetch' when that is no Error)
\* after maxRetries + 1 invocations; it does not give up earlier.
C5_ExhaustedErrorsRaise ==
  /\ (fwPc # "idle" /\ seen[THREW] = maxRetries + 1 /\ Attempts = seen[THREW])
       => /\ fwPc = "thrown"
          /\ fwResult.kind = "error"
          /\ fwResult = (IF lastOutcome.isError THEN lastOutcome ELSE GenericError)
          /\ fetchCalls = maxRetries + 1
  /\ (Ended /\ Attempts = seen[THREW]) => Attempts = maxRetries + 1

\* Three retries allowed and four attempts thrown: the call has raised.
C5_Witness ==
  /\ fwPc = "thrown"
  /\ maxRetries = 3
  /\ seen[THREW] = 4
  /\ Attempts = 4
  /\ fetchCalls = 4

-----------------------------------------------------------------------------
(* getPaperMetadata and fetchDoiMetadata *)

METADATA_CONCURRENCY == 2

\* options.concurrency ?? 2
DEFAULT_CONCURRENCY == 2

\* The second argument of the hook's call of fetchDoiMetadata
HookOptions == [concurrency |-> METADATA_CONCURRENCY, onProgress |-> TRUE]

\* The options parameter of citationService's fetchDoiMetadata left at its
\* default {}
DefaultOptions == [k \in {} |-> FALSE]

\* fetchDoiMetadata of doiService handing the options of its caller on
ForwardedOptions_PassedOn(options) == options

\* fetchDoiMetadata of doiService: (dois) => await fetchMetadata(dois); what
\* its caller passes behind dois is not handed on
ForwardedOptions(options) == DefaultOptions

\* const concurrency = options.concurrency ?? 2
ConcurrencyOf(options) ==
  IF "concurrency" \in DOMAIN options THEN options.concurrency
  ELSE DEFAULT_CONCURRENCY

\* options.onProgress, the onItemDone of mapWithConcurrency, is there
HasOnProgress(options) == "onProgress" \in DOMAIN options

\* mapWithConcurrency(dois, concurrency, mapper, options.onProgress) as the
\* hook reaches it through doiService, up to the first awaits
MetadataPoolStart(dois) ==
  LET options == ForwardedOptions(HookOptions)
  IN [concurrency |-> ConcurrencyOf(options), onProgress |-> HasOnProgress(options)]

\* A CSL record with title, author and issued, and one with none of them
\* (author: whether the member is an array, and its elements)
CslFull ==
  [title |-> "Title",
   author |-> [isArray |-> TRUE,
               items |-> <<[family |-> "Family", given |-> "Given"]>>],
   issued |-> [dateParts |-> <<(<<2001>>)>>]]
CslBare == [type |-> "misc"]

\* What fetchWithRetry gives a metadata request: it throws, or returns a
\* response whose body is a CSL record, a record without the optional keys, a
\* record whose author is no array, the JSON null, or no JSON at all
BodySet == {"csl", "cslBare", "badAuthor", "null", "invalid"}
MetaOutcomes ==
  {[kind |-> "error"]}
    \cup [kind : {"response"}, status : {200}, body : BodySet]
    \cup [kind : {"response"}, status : {404, 429, 500}, body : {"csl"}]

\* Ghost labelling of the outcomes: the metadata fetch of an item fails when
\* the fetch throws, the status is not a 2xx, or the body is null, unparsable
\* or breaks the mapper
MetadataFetchFails(outcome) ==
  \/ outcome.kind = "error"
  \/ outcome.kind = "response" /\ outcome.status \in {404, 429, 500}
  \/ outcome.kind = "response" /\ outcome.body \in {"null", "invalid", "badAuthor"}

\* Response.ok
ResponseOk(status) == status >= 200 /\ status <= 299

JsNull == [isNull |-> TRUE]
JsValue(v) == [isNull |-> FALSE, value |-> v]

\* response.json() of a body that parses
JsonOf(body) ==
  CASE body = "csl" -> JsValue(CslFull)
    [] body = "cslBare" -> JsValue(CslBare)
    [] body = "badAuthor" ->
         JsValue([title |-> "Title", author |-> [isArray |-> FALSE, items |-> <<>>]])
    [] OTHER -> JsNull

\* How a block of code ends: with a value, or by throwing
Returns(v) == [kind |-> "return", value |-> v]
Throws == [kind |-> "throw"]

\* A catch clause that lets the exception through
Caught_Rethrows(tried, v) == tried

\* try { ... } catch (error) { console.error(...); return v; }
Caught(tried, v) == IF tried.kind = "throw" THEN Returns(v) ELSE tried

\* The try block of getPaperMetadata: fetchWithRetry throws, the status is
\* not ok (throw new Error), or response.json() rejects; else the parsed body
PaperMetadataTry(outcome) ==
  IF outcome.kind = "error" THEN Throws
  ELSE IF ~ResponseOk(outcome.status) THEN Throws
  ELSE IF outcome.body = "invalid" THEN Throws
  ELSE Returns(JsonOf(outcome.body))

\* How a call of getPaperMetadata ends
PaperMetadataEnds(outcome) == Caught(PaperMetadataTry(outcome), JsNull)

\* getPaperMetadata: what the call resolves to
getPaperMetadata(outcome) == PaperMetadataEnds(outcome).value

\* `${author.family || ''}${author.given ? ', ' + author.given : ''}`, the
\* pieces of the string in order
AuthorName(author) ==
  <<(IF "family" \in DOMAIN author THEN author.family ELSE "")>>
    \o (IF "given" \in DOMAIN author THEN <<", ", author.given>> ELSE <<>>)

\* Number.prototype.toString for the years of the model
YearString(y) == IF y = 2001 THEN "2001" ELSE "0"

\* The record the mapper builds from a metadata object; undefined members
\* are left out
RecordOf(doi, metadata) ==
  LET keys == {"doi", "csl"}
                \cup (IF "title" \in DOMAIN metadata THEN {"title"} ELSE {})
                \cup (IF "author" \in DOMAIN metadata THEN {"authors"} ELSE {})
                \cup (IF "issued" \in DOMAIN metadata THEN {"year"} ELSE {})
  IN [k \in keys |->
        CASE k = "doi" -> doi
          [] k = "csl" -> metadata
          [] k = "title" -> metadata.title
          [] k = "authors" ->
               [a \in 1..Len(metadata.author.items) |->
                  AuthorName(metadata.author.items[a])]
          [] k = "year" -> YearString(metadata.issued.dateParts[1][1])]

\* metadata.author?.map throws when author is there and is no array
MapThrows(metadata) == "author" \in DOMAIN metadata /\ ~metadata.author.isArray

\* The mapper with its failure branches returning nothing
MetadataMapper_DropsFailures(doi, outcome) ==
  LET metadata == getPaperMetadata(outcome)
  IN IF metadata.isNull \/ MapThrows(metadata.value)
     THEN [undefined |-> TRUE]
     ELSE RecordOf(doi, metadata.value)

\* The mapper fetchDoiMetadata hands to mapWithConcurrency
MetadataMapper(doi, outcome) ==
  LET metadata == getPaperMetadata(outcome)
  IN IF metadata.isNull THEN [doi |-> doi]
     ELSE IF MapThrows(metadata.value) THEN [doi |-> doi]
     ELSE RecordOf(doi, metadata.value)

(* The pool as the program calls it: mapWithConcurrency is not exported, and
   its one caller is fetchDoiMetadata, whose mapper returns the record of
   the DOI it was called with whatever its request does *)

\* fetchDoiMetadata(dois, options), up to the first await of every worker
FetchDoiMetadataCall ==
  /\ pool.status = "idle"
  /\ \E dois \in SeqsUpTo(ItemSet, MaxItems), given \in SUBSET {"concurrency", "onProgress"},
        concurrency \in 0..MaxConcurrency :
       LET options == [k \in given |-> IF k = "concurrency" THEN concurrency ELSE 1]
       IN pool' = PoolStart(dois, ConcurrencyOf(options), HasOnProgress(options))
  /\ completionOrder' = <<>>
  /\ rejections' = <<>>
  /\ UNCHANGED <<exVars, fwVars, frVars, restVars>>

\* The request of one mapper call settles, with metadata or with a failure
\* that the mapper catches: the call resolves with the record of its DOI
FetchMapperSettle ==
  /\ pool.status = "running"
  /\ \E k \in 1..Len(pool.inflight), outcome \in MetaOutcomes :
       /\ pool' = PoolResume(pool, k,
                    MetadataMapper(pool.inflight[k].item, outcome))
       /\ completionOrder' = Append(completionOrder, pool.inflight[k].index)
  /\ UNCHANGED rejections
  /\ UNCHANGED <<exVars, fwVars, frVars, restVars>>

FetchMapNext == FetchDoiMetadataCall \/ FetchMapperSettle

SpecFetchMap == MapInit /\ [][FetchMapNext]_vars

\* The results array as a list (a hole reads as undefined)
ArrayToSeq(arr) ==
  [i \in 1..arr.length |->
     IF (i - 1) \in DOMAIN arr.slot THEN arr.slot[i - 1] ELSE [undefined |-> TRUE]]

\* A result list keeping one record per DOI
RECURSIVE ResolvedList_Unique(_)
ResolvedList_Unique(arr) ==
  IF arr.length = 0 THEN <<>>
  ELSE LET init == ResolvedList_Unique(
                     [length |-> arr.length - 1,
                      slot |-> [k \in (DOMAIN arr.slot) \ {arr.length - 1}
                                  |-> arr.slot[k]]])
           last == arr.slot[arr.length - 1]
       IN IF \E k \in 1..Len(init) : init[k].doi = last.doi
          THEN init ELSE Append(init, last)

\* What fetchDoiMetadata resolves to
ResolvedList(arr) == ArrayToSeq(arr)

-----------------------------------------------------------------------------
(* fetchReferences *)

NO_REFERENCES_MSG == "No references found for this DOI."
NO_DOIS_MSG == "No DOIs found in the references."
NOT_ITERABLE_MSG == "references is not iterable"

PROGRESS_REFERENCES == 10
PROGRESS_DOIS == 20
PROGRESS_BASE == 30
PROGRESS_MAX_DURING_METADATA == 95
PROGRESS_DONE == 100
TICK_HEADROOM == 8
LARGE_BATCH == 80
LARGE_BATCH_INCREMENT == 5

RootDois == {"10.1/root", "10.2/other"}

\* The cited bundles of the responses of the model: a DOI alone, a DOI
\* behind another identifier, no DOI
BundleSet == {<<TokDoiA>>, <<TokOther, TokDoiB>>, <<TokOther>>}

\* What the citation-graph request gives getReferences: it fails (any axios
\* error), or its data is a list of edges or an object that is no list
RefsOutcomes ==
  {[kind |-> "failed", tokens |-> <<>>], [kind |-> "object", tokens |-> <<>>]}
    \cup [kind : {"list"}, tokens : SeqsUpTo(BundleSet, MaxRefs)]

\* getReferences: response.data, or null when the request threw
getReferences(outcome) ==
  IF outcome.kind = "failed" THEN JsNull
  ELSE IF outcome.kind = "object" THEN JsValue([isList |-> FALSE, list |-> <<>>])
  ELSE JsValue([isList |-> TRUE,
                list |-> [i \in 1..Len(outcome.tokens) |-> EdgeOf(outcome.tokens[i])]])

\* The first test with the length left out
NoReferences_NullOnly(references) == references.isNull

\* !references || references.length === 0
NoReferences(references) ==
  \/ references.isNull
  \/ references.value.isList /\ Len(references.value.list) = 0

\* Math.round(a / b) for a >= 0, b > 0
RoundDiv(a, b) == (2 * a + b) \div (2 * b)

\* nextProgress of the progress callback
NextProgress(completed, total) ==
  IF total > 0
  THEN PROGRESS_BASE
         + RoundDiv(completed * (PROGRESS_MAX_DURING_METADATA - PROGRESS_BASE), total)
  ELSE PROGRESS_BASE + (PROGRESS_MAX_DURING_METADATA - PROGRESS_BASE)

\* The interval starting again from PROGRESS_BASE at its ceiling
TickUpdate_Wraps(prev) ==
  IF ~prev.isLoading THEN prev
  ELSE IF prev.progress >= PROGRESS_BASE + TICK_HEADROOM
  THEN [prev EXCEPT !.progress = PROGRESS_BASE]
  ELSE [prev EXCEPT !.progress = prev.progress + 1]

\* The updater of the interval
TickUpdate(prev) ==
  IF ~prev.isLoading THEN prev
  ELSE LET next == Min(PROGRESS_BASE + TICK_HEADROOM, prev.progress + 1)
       IN IF next <= prev.progress THEN prev ELSE [prev EXCEPT !.progress = next]

\* shouldThrottle of the progress callback; soon: now - lastUiUpdate < THROTTLE_MS
ShouldThrottle(completed, total, soon, lastDone) ==
  LET minIncrement == IF total > LARGE_BATCH THEN LARGE_BATCH_INCREMENT ELSE 1
  IN completed # total /\ soon /\ completed - lastDone < minIncrement

\* clearInterval without effect: the interval goes on as it was
ClearInterval_NoEffect(timer) == timer

\* clearInterval(tickTimer), in the progress callback and in the finally:
\* whether the interval still runs
ClearInterval(timer) == FALSE

\* The updater of the progress callback
ProgressUpdate(prev, completed, total) ==
  [prev EXCEPT !.progress =
     Max(prev.progress,
         Min(PROGRESS_MAX_DURING_METADATA, NextProgress(completed, total)))]

\* The reset with the error of the call before left standing
ResetState_StaleError(doi) ==
  [isLoading |-> TRUE, error |-> NO_DOIS_MSG, progress |-> 0, mainDoi |-> doi,
   paperTitle |-> NULL, references |-> <<>>, citationText |-> <<>>,
   generatingCitations |-> FALSE]

\* The reset with the root DOI left out
ResetState_NoDoi(doi) == [InitialState EXCEPT !.isLoading = TRUE]

\* The object fetchReferences(doi) hands to setState before anything else
ResetState(doi) ==
  [isLoading |-> TRUE, error |-> NULL, progress |-> 0, mainDoi |-> doi,
   paperTitle |-> NULL, references |-> <<>>, citationText |-> <<>>,
   generatingCitations |-> FALSE]

\* The last update with the progress left where the callback put it
Completed_KeepsProgress(prev, doiMetadata) ==
  [prev EXCEPT !.isLoading = FALSE, !.references = doiMetadata]

\* The updater fetchReferences ends with
Completed(prev, doiMetadata) ==
  [prev EXCEPT !.isLoading = FALSE,
               !.progress = PROGRESS_DONE,
               !.references = doiMetadata]

\* The texts setCitationText is called with
CitationTexts == {<<"@article{a}">>}

FrInit ==
  /\ RestIdle
  /\ ExIdle
  /\ FwIdle
  /\ pool = [status |-> "idle"]
  /\ completionOrder = <<>>
  /\ rejections = <<>>
  /\ FrIdle

\* fetchReferences(doi) up to its first await: the reset and the request for
\* the references (one call at a time: the next starts once this one settled)
\* fetchReferences(doi) up to its first await: the reset of the session and the
\* request for the references of doi
FetchReferencesInvoke(doi) ==
  /\ frPc \in {"idle", "done"}
  /\ state' = ResetState(doi)
  /\ frDoi' = doi
  /\ frPc' = "awaitRefs"
  /\ requests' = [NoRequests EXCEPT !.references = 1]
  /\ citedDois' = <<>>
  /\ tickTimer' = FALSE
  /\ uiUpdated' = FALSE
  /\ lastCompleted' = 0
  /\ apiTokens' = <<>>
  /\ refsOutcome' = "none"
  /\ failedItems' = {}
  /\ pool' = [status |-> "idle"]
  /\ UNCHANGED <<exVars, fwVars, mapVars>>

FetchReferencesCall ==
  /\ \E doi \in RootDois : FetchReferencesInvoke(doi)
  /\ UNCHANGED restVars

\* The continuation after await getReferences(doi): steps 1 and 2, and the
\* request for the title of the root DOI
ReferencesSettle ==
  /\ frPc = "awaitRefs"
  /\ \E outcome \in RefsOutcomes :
       LET references == getReferences(outcome)
           at10 == [state EXCEPT !.progress = PROGRESS_REFERENCES]
           dois == extractCitedDois(references.value.list)
       IN /\ refsOutcome' = outcome.kind
          /\ apiTokens' = outcome.tokens
          /\ IF NoReferences(references)
             THEN /\ state' = [state EXCEPT !.isLoading = FALSE,
                                            !.error = NO_REFERENCES_MSG]
                  /\ frPc' = "done"
                  /\ UNCHANGED <<citedDois, requests>>
             ELSE IF ~references.value.isList
             THEN \* extractCitedDois throws on what is not iterable: the outer catch
                  /\ state' = [at10 EXCEPT !.isLoading = FALSE,
                                           !.error = NOT_ITERABLE_MSG]
                  /\ frPc' = "done"
                  /\ UNCHANGED <<citedDois, requests>>
             ELSE IF Len(dois) = 0
             THEN /\ state' = [at10 EXCEPT !.isLoading = FALSE,
                                           !.error = NO_DOIS_MSG]
                  /\ citedDois' = dois
                  /\ frPc' = "done"
                  /\ UNCHANGED requests
             ELSE /\ state' = [at10 EXCEPT !.progress = PROGRESS_DOIS]
                  /\ citedDois' = dois
                  /\ frPc' = "awaitTitle"
                  /\ requests' = [requests EXCEPT !.title = @ + 1]
  /\ UNCHANGED <<frDoi, tickTimer, uiUpdated, lastCompleted, failedItems, pool>>
  /\ UNCHANGED <<exVars, fwVars, mapVars, restVars>>

\* The title taken from whatever the earlier answer to the same request held
PaperTitleOf_Kept(mainPaperData) == "Title"

\* mainPaperData?.title || null
PaperTitleOf(mainPaperData) ==
  IF ~mainPaperData.isNull /\ "title" \in DOMAIN mainPaperData.value
  THEN mainPaperData.value.title ELSE NULL

\* The continuation after await getPaperMetadata(doi), which never throws:
\* step 3, the interval, and fetchDoiMetadata up to the first awaits of its
\* two workers
TitleSettleWith(outcome) ==
  /\ frPc = "awaitTitle"
  /\ LET mainPaperData == getPaperMetadata(outcome)
         paperTitle == PaperTitleOf(mainPaperData)
         at30 == [state EXCEPT !.paperTitle = paperTitle,
                               !.progress = PROGRESS_BASE]
         call == MetadataPoolStart(citedDois)
         started == PoolStart(citedDois, call.concurrency, call.onProgress)
     IN /\ state' = [at30 EXCEPT !.progress = Max(at30.progress, PROGRESS_BASE)]
        /\ pool' = started
        /\ requests' = [requests EXCEPT !.metadata = @ + Len(started.inflight)]
  /\ tickTimer' = TRUE
  /\ frPc' = "awaitMeta"
  /\ UNCHANGED <<frDoi, citedDois, uiUpdated, lastCompleted, apiTokens, refsOutcome,
                 failedItems>>
  /\ UNCHANGED <<exVars, fwVars, mapVars, restVars>>

TitleSettle ==
  /\ frPc = "awaitTitle"
  /\ \E outcome \in MetaOutcomes : TitleSettleWith(outcome)

\* The interval of tickTimer fires
Tick ==
  /\ tickTimer
  /\ state' = TickUpdate(state)
  /\ UNCHANGED <<frPc, frDoi, citedDois, tickTimer, uiUpdated, lastCompleted,
                 apiTokens, refsOutcome, failedItems, requests, pool>>
  /\ UNCHANGED <<exVars, fwVars, mapVars, restVars>>

\* The metadata request of one cited DOI settles: the mapper's record, the
\* worker's continuation with the progress callback and, once both workers
\* have left their loops, the finally and the last update of fetchReferences
MetadataSettle ==
  /\ frPc = "awaitMeta"
  /\ \E k \in 1..Len(pool.inflight), outcome \in MetaOutcomes, soon \in BOOLEAN :
       /\ soon => uiUpdated /\ pool.hasOnItemDone
       /\ pool' = PoolResume(pool, k, MetadataMapper(pool.inflight[k].item, outcome))
       /\ failedItems' = (IF MetadataFetchFails(outcome)
                          THEN failedItems \cup {pool.inflight[k].index}
                          ELSE failedItems)
       /\ LET args == IF pool'.hasOnItemDone
                      THEN pool'.onItemDoneCalls[Len(pool'.onItemDoneCalls)]
                      ELSE <<0, 0>>
              completed == args[1]
              total == args[2]
              \* no callback, or one that returns before its update
              throttle == \/ ~pool'.hasOnItemDone
                          \/ ShouldThrottle(completed, total, soon, lastCompleted)
              reported == IF throttle THEN state
                          ELSE ProgressUpdate(state, completed, total)
          IN /\ uiUpdated' = (IF throttle THEN uiUpdated ELSE TRUE)
             /\ lastCompleted' = (IF throttle THEN lastCompleted ELSE completed)
             /\ IF pool'.status = "resolved"
                THEN /\ state' = Completed(reported, ResolvedList(pool'.returned))
                     /\ frPc' = "done"
                ELSE /\ state' = reported
                     /\ frPc' = frPc
  /\ requests' = [requests EXCEPT !.metadata =
                    @ + Len(pool'.inflight) - (Len(pool.inflight) - 1)]
  /\ LET cleared == IF pool'.hasOnItemDone THEN ClearInterval(tickTimer)
                    ELSE tickTimer
     IN tickTimer' = (IF pool'.status = "resolved"
                      THEN ClearInterval(cleared) ELSE cleared)
  /\ UNCHANGED <<frDoi, citedDois, apiTokens, refsOutcome>>
  /\ UNCHANGED <<exVars, fwVars, mapVars, restVars>>

\* setCitationText(text), which the hook hands to its user
SetCitationText ==
  /\ \E text \in CitationTexts : state' = [state EXCEPT !.citationText = text]
  /\ UNCHANGED <<frPc, frDoi, citedDois, tickTimer, uiUpdated, lastCompleted,
                 apiTokens, refsOutcome, failedItems, requests, pool>>
  /\ UNCHANGED <<exVars, fwVars, mapVars, restVars>>

FrNext ==
  \/ FetchReferencesCall
  \/ ReferencesSettle
  \/ TitleSettle
  \/ Tick
  \/ MetadataSettle
  \/ SetCitationText

SpecSession == FrInit /\ [][FrNext]_vars

\* The call has run to the end of step 4
Resolved == frPc = "done" /\ pool.status = "resolved"
CarryingIn(edges) == {i \in 1..Len(edges) : HasDoiToken(edges[i])}

\* C6: a cited DOI whose metadata fetch fails still yields a record holding
\* only doi; no failure aborts the batch, so the resolved list has the length
\* of the cited-DOI list and references[i].doi = citedDois[i] for every i.
C6_FailedItemKeepsDoiRecord ==
  /\ Resolved =>
       /\ state.error = NULL
       /\ Len(state.references) = Len(citedDois)
       /\ \A i \in 1..Len(citedDois) :
            /\ "doi" \in DOMAIN state.references[i]
            /\ state.references[i].doi = citedDois[i]
            /\ (i - 1) \in failedItems => DOMAIN state.references[i] = {"doi"}
  /\ (failedItems # {} /\ ~Resolved) =>
       /\ frPc = "awaitMeta"
       /\ state.isLoading
       /\ state.error = NULL

\* Two cited DOIs resolved, the first with a failed fetch and the second
\* with its metadata.
C6_Witness ==
  /\ Resolved
  /\ Len(citedDois) = 2
  /\ failedItems = {0}
  /\ state.references[1] = [doi |-> citedDois[1]]
  /\ "title" \in DOMAIN state.references[2]

\* C9 as stated: after a successful resolution no two entries share a doi,
\* and there are as many entries as unique cited DOIs.
C9_UniqueDoisAsStated ==
  Resolved =>
    /\ \A i, j \in 1..Len(state.references) :
         state.references[i].doi = state.references[j].doi => i = j
    /\ Len(state.references) =
         Cardinality({citedDois[i] : i \in 1..Len(citedDois)})

\* C9 as amended: after a successful resolution there is one entry per edge
\* of the response that carries a doi: token, repeats included: a DOI has as
\* many entries as edges citing it.
C9_OneEntryPerCitingEdge ==
  Resolved =>
    /\ Len(state.references) = Cardinality(CarryingIn(apiTokens))
    /\ \A i \in CarryingIn(apiTokens) :
         LET d == FirstDoiOf(apiTokens[i])
         IN Cardinality({k \in 1..Len(state.references) :
                           state.references[k].doi = d})
              = Cardinality({h \in CarryingIn(apiTokens) :
                               FirstDoiOf(apiTokens[h]) = d})

\* Two edges citing the same DOI resolved to two entries with that DOI.
C9_Witness ==
  /\ Resolved
  /\ Len(apiTokens) = 2
  /\ Len(state.references) = 2
  /\ state.references[1].doi = state.references[2].doi

Halted ==
  /\ frPc = "done"
  /\ ~state.isLoading
  /\ state.references = <<>>
  /\ state.progress < 100
  /\ requests.references = 1
  /\ requests.title = 0
  /\ requests.metadata = 0

\* C10: a failed citation-graph request or an empty list ends the call with
\* 'No references found for this DOI.', a list from which no DOI can be
\* extracted with 'No DOIs found in the references.'; either way loading is off,
\* references is empty, progress is below 100, the request was made once and
\* no metadata request (for the root or a cited DOI) was issued.
C10_NoReferencesAndNoDois ==
  /\ (refsOutcome = "failed" \/ (refsOutcome = "list" /\ apiTokens = <<>>))
       => (Halted /\ state.error = "No references found for this DOI.")
  /\ (refsOutcome = "list" /\ apiTokens # <<>> /\ CarryingIn(apiTokens) = {})
       => (Halted /\ state.error = "No DOIs found in the references.")

\* A response of two edges without a DOI has ended the call at progress 10
\* with the no-DOIs message.
C10_Witness ==
  /\ frPc = "done"
  /\ refsOutcome = "list"
  /\ Len(apiTokens) = 2
  /\ state.error = NO_DOIS_MSG
  /\ state.progress = 10

\* A call of fetchReferences starts: from rest, or over a call in flight
FetchReferencesStarts ==
  frPc' = "awaitRefs" /\ (frPc # "awaitRefs" \/ earlier' # earlier)

\* C12: the step that starts fetchReferences(doi) leaves the session at
\* isLoading=true, error=null, progress=0, mainDoi=doi, paperTitle=null,
\* references=[], citationText='', generatingCitations=false, whatever it
\* was before: no field of the previous session is kept.
C12_StartResetsSession ==
  [][FetchReferencesStarts =>
       state' = [isLoading |-> TRUE, error |-> NULL, progress |-> 0,
                 mainDoi |-> frDoi', paperTitle |-> NULL, references |-> <<>>,
                 citationText |-> <<>>, generatingCitations |-> FALSE]]_vars

\* A call for the second root DOI has started and waits for the references:
\* the session is the reset one, with that DOI.
C12_Witness ==
  /\ frPc = "awaitRefs"
  /\ pool.status = "idle"
  /\ frDoi = "10.2/other"
  /\ state.mainDoi = "10.2/other"
  /\ state.isLoading
  /\ state.references = <<>>
  /\ state.citationText = <<>>

\* C13: when the resolution has completed (every cited DOI resolved) the
\* session has progress=100, isLoading=false, error=null and one record per
\* cited DOI, in the order of the cited DOIs, as the pool returned them.
C13_CompletionState ==
  Resolved =>
    /\ state.progress = 100
    /\ ~state.isLoading
    /\ state.error = NULL
    /\ Len(state.references) = Len(citedDois)
    /\ \A i \in 1..Len(citedDois) :
         /\ state.references[i] = pool.returned.slot[i - 1]
         /\ state.references[i].doi = citedDois[i]

\* Three cited DOIs resolved, with progress last reported below 100 by the
\* callback and the first two DOIs different.
C13_Witness ==
  /\ Resolved
  /\ Len(citedDois) = 3
  /\ citedDois[1] # citedDois[2]
  /\ state.progress = 100
  /\ Len(state.references) = 3

-----------------------------------------------------------------------------
(* fetchReferences called again while a call is in flight.  The calls share
   the session and nothing else: each has its own locals, and the updaters
   of the one that was there first run on whatever the session holds. *)

MaxOverlapRefs == 1

\* The variables of the latest call
callVars == <<frPc, frDoi, citedDois, tickTimer, uiUpdated, lastCompleted,
              apiTokens, refsOutcome, failedItems, requests, pool>>

\* The responses to the calls that overlap have at most MaxOverlapRefs edges
EarlierRefsOutcomes ==
  {o \in RefsOutcomes : Len(o.tokens) <= MaxOverlapRefs}

EarlierDone == [pc |-> "done"]

\* fetchReferences(doi) while the latest call waits: that call goes on as the
\* earlier one, the new one resets the session and asks for its references
\* (two calls at a time: the one before them has run to its end)
Supersede ==
  /\ frPc \in {"awaitRefs", "awaitTitle", "awaitMeta"}
  /\ earlier.pc \in {"idle", "done"}
  /\ Len(citedDois) <= MaxOverlapRefs
  /\ earlier' = [pc |-> frPc, citedDois |-> citedDois, tickTimer |-> tickTimer,
                 uiUpdated |-> uiUpdated, lastCompleted |-> lastCompleted,
                 pool |-> pool]
  /\ \E doi \in RootDois :
       /\ state' = ResetState(doi)
       /\ frDoi' = doi
  /\ frPc' = "awaitRefs"
  /\ requests' = [NoRequests EXCEPT !.references = 1]
  /\ citedDois' = <<>>
  /\ tickTimer' = FALSE
  /\ uiUpdated' = FALSE
  /\ lastCompleted' = 0
  /\ apiTokens' = <<>>
  /\ refsOutcome' = "none"
  /\ failedItems' = {}
  /\ pool' = [status |-> "idle"]
  /\ UNCHANGED <<exVars, fwVars, mapVars, pk, page, fn, bd, cf, gc>>

\* The earlier call's continuation after await getReferences(doi)
EarlierReferencesSettle ==
  /\ earlier.pc = "awaitRefs"
  /\ \E outcome \in EarlierRefsOutcomes :
       LET references == getReferences(outcome)
           at10 == [state EXCEPT !.progress = PROGRESS_REFERENCES]
           dois == extractCitedDois(references.value.list)
       IN IF NoReferences(references)
          THEN /\ state' = [state EXCEPT !.isLoading = FALSE,
                                         !.error = NO_REFERENCES_MSG]
               /\ earlier' = EarlierDone
          ELSE IF ~references.value.isList
          THEN /\ state' = [at10 EXCEPT !.isLoading = FALSE,
                                        !.error = NOT_ITERABLE_MSG]
               /\ earlier' = EarlierDone
          ELSE IF Len(dois) = 0
          THEN /\ state' = [at10 EXCEPT !.isLoading = FALSE,
                                        !.error = NO_DOIS_MSG]
               /\ earlier' = EarlierDone
          ELSE /\ state' = [at10 EXCEPT !.progress = PROGRESS_DOIS]
               /\ earlier' = [earlier EXCEPT !.pc = "awaitTitle",
                                             !.citedDois = dois]
  /\ UNCHANGED <<callVars, exVars, fwVars, mapVars, pk, page, fn, bd, cf, gc>>

\* The earlier call's continuation after await getPaperMetadata(doi)
EarlierTitleSettle ==
  /\ earlier.pc = "awaitTitle"
  /\ \E outcome \in MetaOutcomes :
       LET mainPaperData == getPaperMetadata(outcome)
           paperTitle == PaperTitleOf(mainPaperData)
           at30 == [state EXCEPT !.paperTitle = paperTitle,
                                 !.progress = PROGRESS_BASE]
       IN /\ state' = [at30 EXCEPT !.progress = Max(at30.progress, PROGRESS_BASE)]
          /\ earlier' = [earlier EXCEPT
                           !.pc = "awaitMeta",
                           !.tickTimer = TRUE,
                           !.pool =
                              LET call == MetadataPoolStart(earlier.citedDois)
                              IN PoolStart(earlier.citedDois, call.concurrency,
                                           call.onProgress)]
  /\ UNCHANGED <<callVars, exVars, fwVars, mapVars, pk, page, fn, bd, cf, gc>>

\* The interval of the earlier call fires
EarlierTick ==
  /\ earlier.pc = "awaitMeta"
  /\ earlier.tickTimer
  /\ state' = TickUpdate(state)
  /\ UNCHANGED <<earlier, callVars, exVars, fwVars, mapVars, pk, page, fn, bd, cf, gc>>

\* A metadata request of the earlier call settles
EarlierMetadataSettle ==
  /\ earlier.pc = "awaitMeta"
  /\ \E k \in 1..Len(earlier.pool.inflight), outcome \in MetaOutcomes,
        soon \in BOOLEAN :
       /\ soon => earlier.uiUpdated /\ earlier.pool.hasOnItemDone
       /\ LET resumed == PoolResume(earlier.pool, k,
                           MetadataMapper(earlier.pool.inflight[k].item, outcome))
              args == IF resumed.hasOnItemDone
                      THEN resumed.onItemDoneCalls[Len(resumed.onItemDoneCalls)]
                      ELSE <<0, 0>>
              completed == args[1]
              total == args[2]
              throttle == \/ ~resumed.hasOnItemDone
                          \/ ShouldThrottle(completed, total, soon,
                                            earlier.lastCompleted)
              reported == IF throttle THEN state
                          ELSE ProgressUpdate(state, completed, total)
          IN IF resumed.status = "resolved"
             THEN /\ state' = Completed(reported, ResolvedList(resumed.returned))
                  /\ earlier' = EarlierDone
             ELSE /\ state' = reported
                  /\ earlier' = [earlier EXCEPT
                                   !.pool = resumed,
                                   !.tickTimer =
                                      (IF resumed.hasOnItemDone
                                       THEN ClearInterval(@) ELSE @),
                                   !.uiUpdated = (IF throttle THEN @ ELSE TRUE),
                                   !.lastCompleted =
                                      (IF throttle THEN @ ELSE completed)]
  /\ UNCHANGED <<callVars, exVars, fwVars, mapVars, pk, page, fn, bd, cf, gc>>

OvNext ==
  \/ FetchReferencesCall
  \/ (ReferencesSettle /\ Len(apiTokens') <= MaxOverlapRefs)
  \/ TitleSettle
  \/ Tick
  \/ MetadataSettle
  \/ Supersede
  \/ EarlierReferencesSettle
  \/ EarlierTitleSettle
  \/ EarlierTick
  \/ EarlierMetadataSettle

SpecOverlap == FrInit /\ [][OvNext]_vars

\* The earlier call runs one of its continuations
EarlierActs == earlier.pc \notin {"idle", "done"} /\ earlier' # earlier

\* C11 as stated: once fetchReferences has been started again, no step of
\* the call that was in flight changes the session; what the session holds
\* comes from the latest call alone.
C11_EarlierCallWritesNothing == [][EarlierActs => state' = state]_vars

\* The workers whose mapper call rejected
RejectedWorkers == {rejections[r].worker : r \in 1..Len(rejections)}

\* C14: the pool does not absorb a rejection of mapper: its promise rejects,
\* with the failure of the first call that rejected, if and only if a call
\* rejected, and it never resolves then; it stops nobody: a worker leaves its
\* loop only by the rejection of its own call or when no index is left, and
\* every other worker has its call in flight.
C14_RejectionPropagates ==
  pool.status # "idle" =>
    /\ (pool.status = "rejected") <=> (rejections # <<>>)
    /\ rejections # <<>> =>
         pool.error = MapperError(pool.items[rejections[1].index + 1],
                                  rejections[1].index)
    /\ \A w \in 1..pool.workers :
         IF pool.cur[w] = -1
         THEN pool.nextIndex = Len(pool.items) \/ w \in RejectedWorkers
         ELSE \E k \in 1..Len(pool.inflight) :
                /\ pool.inflight[k].worker = w
                /\ pool.inflight[k].index = pool.cur[w]

\* Two workers over three items: the call for item 0 rejected first, and the
\* other worker went on to resolve items 1 and 2 into their slots.
C14_Witness ==
  /\ pool.status = "rejected"
  /\ Len(pool.items) = 3
  /\ pool.workers = 2
  /\ Len(rejections) = 1
  /\ rejections[1].index = 0
  /\ completionOrder = <<0, 1, 2>>
  /\ DOMAIN pool.results.slot = {1, 2}
  /\ pool.inflight = <<>>

-----------------------------------------------------------------------------
(* getFilenameFromDoiRef *)

MaxTitleWords == 4

LOWER == <<"a", "b", "c", "d", "e", "f", "g", "h", "i", "j", "k", "l", "m",
           "n", "o", "p", "q", "r", "s", "t", "u", "v", "w", "x", "y", "z">>
UPPER == <<"A", "B", "C", "D", "E", "F", "G", "H", "I", "J", "K", "L", "M",
           "N", "O", "P", "Q", "R", "S", "T", "U", "V", "W", "X", "Y", "Z">>
DIGITS == {"0", "1", "2", "3", "4", "5", "6", "7", "8", "9"}

Range(f) == {f[i] : i \in DOMAIN f}

\* String.prototype.toLowerCase, one character
ToLowerCaseChar(c) ==
  IF c \in Range(UPPER) THEN LOWER[CHOOSE i \in 1..Len(UPPER) : UPPER[i] = c]
  ELSE IF c = "É" THEN "é"
  ELSE IF c = "Å" THEN "å"
  ELSE c

ToLowerCase(str) == [i \in 1..Len(str) |-> ToLowerCaseChar(str[i])]

\* \w and \s of a regular expression without the u flag
IsWordChar(c) == c \in Range(LOWER) \cup Range(UPPER) \cup DIGITS \cup {"_"}
IsSpaceChar(c) == c = " "
WordOrSpace(c) == IsWordChar(c) \/ IsSpaceChar(c)

\* [a-z0-9_-] under the i flag: the letters of both cases
IsFilenameChar(c) == c \in Range(LOWER) \cup Range(UPPER) \cup DIGITS \cup {"_", "-"}

\* [/.:]
IsDoiPunctuation(c) == c \in {"/", ".", ":"}

\* replace(/[...]/g, r) for a class of single characters, given as the set of
\* the characters the class matches
ReplaceEach(str, class, r) ==
  [i \in 1..Len(str) |-> IF str[i] \in class THEN r ELSE str[i]]

\* The characters of str that [^a-z0-9_-] with the i flag matches
NotFilenameChars(str) == {c \in Range(str) : ~IsFilenameChar(c)}

\* The characters of str that [/.:] matches
DoiPunctuation(str) == {c \in Range(str) : IsDoiPunctuation(c)}

\* The second pass left out
CollapseUnderscores_Off(str) == str

\* replace(/_+/g, '_')
RECURSIVE CollapseUnderscores(_)
CollapseUnderscores(str) ==
  IF Len(str) < 2 THEN str
  ELSE IF str[1] = "_" /\ str[2] = "_" THEN CollapseUnderscores(Tail(str))
  ELSE <<str[1]>> \o CollapseUnderscores(Tail(str))

\* slice(0, 3)
Slice3(parts) == SubSeq(parts, 1, Min(3, Len(parts)))

\* filename += (filename ? '_' : '') + piece
AddPiece(filename, piece) ==
  filename \o (IF filename # <<>> THEN <<"_">> ELSE <<>>) \o piece

getFilenameFromDoiRef(doiRef) ==
  LET withAuthor ==
        IF "authors" \in DOMAIN doiRef /\ Len(doiRef.authors) > 0
        THEN Split(doiRef.authors[1], ",")[1]
        ELSE <<>>
      withYear ==
        IF "year" \in DOMAIN doiRef /\ doiRef.year # <<>>
        THEN AddPiece(withAuthor, doiRef.year)
        ELSE withAuthor
      withTitle ==
        IF "title" \in DOMAIN doiRef /\ doiRef.title # <<>>
        THEN AddPiece(withYear,
               SelectSeq(ToLowerCase(Join(Slice3(Split(doiRef.title, SPACE)), SPACE)),
                         WordOrSpace))
        ELSE withYear
      named ==
        IF withTitle = <<>>
        THEN ReplaceEach(doiRef.doi, DoiPunctuation(doiRef.doi), "_")
        ELSE withTitle
  IN CollapseUnderscores(ReplaceEach(named, NotFilenameChars(named), "_"))

\* The records the function is called with
AuthorLists ==
  {<<>>,
   << <<"S", "m", "i", "t", "h", ",", " ", "J">> >>,
   << <<"Å", "-", "b">>, <<"X">> >>,
   << <<",", " ", "J">> >>}
YearSet == {<<>>, <<"2", "0", "0", "1">>, <<"n", ".", "d", ".">>}
WordSet == {<<"D", "e">>, <<"é", "!">>, <<>>, <<"_">>}
TitleSet == {Join(ws, SPACE) : ws \in SeqsUpTo(WordSet, MaxTitleWords)}
DoiSet == {<<"1", "0", ".", "1", "/", "a", ":", "B">>, <<"é", "/", "/">>, <<>>}

CoreIdle ==
  /\ ExIdle
  /\ FwIdle
  /\ FrIdle
  /\ pool = [status |-> "idle"]
  /\ completionOrder = <<>>
  /\ rejections = <<>>

FnInit ==
  /\ CoreIdle
  /\ EarlierIdle
  /\ PkIdle
  /\ PageIdle
  /\ BdIdle
  /\ CfIdle
  /\ GcIdle
  /\ \E keys \in SUBSET {"authors", "year", "title"}, a \in AuthorLists,
        y \in YearSet, t \in TitleSet, d \in DoiSet :
       fn = [pc |-> "ready",
             doiRef |-> [k \in {"doi"} \cup keys |->
                           CASE k = "doi" -> d
                             [] k = "authors" -> a
                             [] k = "year" -> y
                             [] k = "title" -> t],
             filename |-> <<>>]

FilenameCall ==
  /\ fn.pc = "ready"
  /\ fn' = [fn EXCEPT !.pc = "done",
                      !.filename = getFilenameFromDoiRef(fn.doiRef)]
  /\ UNCHANGED <<exVars, fwVars, frVars, mapVars, pool, earlier, pk, page, bd, cf, gc>>

SpecFilename == FnInit /\ [][FilenameCall]_vars

NoDoubleUnderscore(str) ==
  \A i \in 1..(Len(str) - 1) : ~(str[i] = "_" /\ str[i + 1] = "_")

\* C20 as stated: the returned filename has only characters of a-z, 0-9, _
\* and -, and no two underscores in a row.
C20_LowercaseOnlyAsStated ==
  fn.pc = "done" =>
    /\ \A i \in 1..Len(fn.filename) :
         fn.filename[i] \in Range(LOWER) \cup DIGITS \cup {"_", "-"}
    /\ NoDoubleUnderscore(fn.filename)

\* C20 as amended: the returned filename has only ASCII letters of either
\* case, digits, _ and -, and no two underscores in a row; an uppercase
\* letter of the author's surname or of the DOI is kept.
C20_SanitizedFilename ==
  fn.pc = "done" =>
    /\ \A i \in 1..Len(fn.filename) :
         fn.filename[i] \in Range(LOWER) \cup Range(UPPER) \cup DIGITS \cup {"_", "-"}
    /\ NoDoubleUnderscore(fn.filename)

\* The surname Smith, a year and a title with an accented letter, an
\* exclamation mark and a double space gave Smith_2001_de_.
C20_Witness ==
  /\ fn.pc = "done"
  /\ DOMAIN fn.doiRef = {"doi", "authors", "year", "title"}
  /\ fn.doiRef.title = <<"D", "e", " ", " ", "é", "!">>
  /\ fn.filename = <<"S", "m", "i", "t", "h", "_", "2", "0", "0", "1", "_",
                     "d", "e", "_">>

-----------------------------------------------------------------------------
(* convertDoiToCitation, and the two functions that stand between
   fetchWithRetry and their callers *)

BIBTEX == "application/x-bibtex"
RIS == "application/x-research-info-systems"
TURTLE == "text/turtle"
APA == "apa"

\* The formats and styles of the model, and format.includes('/') for them
FormatSet == {BIBTEX, RIS, TURTLE, APA}
IncludesSlash(format) == format \in {BIBTEX, RIS, TURTLE}

\* The Accept header of the request; style is NULL when the argument is omitted
AcceptOf(format, style) ==
  IF style # NULL \/ ~IncludesSlash(format)
  THEN [bibliography |-> TRUE, value |-> (IF style # NULL THEN style ELSE format)]
  ELSE [bibliography |-> FALSE, value |-> format]

\* What fetchWithRetry gives a conversion request: it throws, or returns a
\* response whose text can be read or not
ConvertOutcomes ==
  {[kind |-> "error"]}
    \cup [kind : {"response"}, status : {200, 404, 429, 503},
          text : {"ok", "unreadable"}]

\* The citation the resolver sent for doi in format
CitationText(doi, format) == [kind |-> "citation", doi |-> doi, format |-> format]

\* `Error: Could not convert DOI ${doi} to ${format} format`
ConvertErrorText(doi, format) == [kind |-> "errorText", doi |-> doi, format |-> format]

\* The try block of convertDoiToCitation
ConvertTry(doi, format, outcome) ==
  IF outcome.kind = "error" THEN Throws
  ELSE IF ~ResponseOk(outcome.status) THEN Throws
  ELSE IF outcome.text = "unreadable" THEN Throws
  ELSE Returns(CitationText(doi, format))

\* How a call of convertDoiToCitation ends
ConvertEnds(doi, format, outcome) ==
  Caught(ConvertTry(doi, format, outcome), ConvertErrorText(doi, format))

\* convertDoiToCitation: what the call resolves to
convertDoiToCitation(doi, format, outcome) == ConvertEnds(doi, format, outcome).value

BdInit ==
  /\ CoreIdle
  /\ EarlierIdle
  /\ PkIdle
  /\ PageIdle
  /\ FnIdle
  /\ CfIdle
  /\ GcIdle
  /\ \/ \E doi \in RootDois :
          bd = [pc |-> "ready", callee |-> "getPaperMetadata", doi |-> doi]
     \/ \E doi \in RootDois, format \in FormatSet, style \in {NULL, APA} :
          bd = [pc |-> "ready", callee |-> "convertDoiToCitation", doi |-> doi,
                format |-> format, style |-> style]

bdRest == <<exVars, fwVars, frVars, mapVars, pool, earlier, pk, page, fn, cf, gc>>

\* getPaperMetadata(doi), from the call to await fetchWithRetry(...)
PaperMetadataCall ==
  /\ bd.pc = "ready"
  /\ bd.callee = "getPaperMetadata"
  /\ bd' = [pc |-> "awaitFetch", callee |-> bd.callee, doi |-> bd.doi]
  /\ UNCHANGED bdRest

\* The request of getPaperMetadata settles, with its body when it has one:
\* the rest of the try block, or the catch
PaperMetadataSettles ==
  /\ bd.pc = "awaitFetch"
  /\ bd.callee = "getPaperMetadata"
  /\ \E outcome \in MetaOutcomes :
       bd' = [pc |-> "done", callee |-> bd.callee, doi |-> bd.doi,
              outcome |-> outcome,
              ends |-> PaperMetadataEnds(outcome)]
  /\ UNCHANGED bdRest

\* convertDoiToCitation(doi, format, style), from the call to
\* await fetchWithRetry(url, { headers })
ConvertCall ==
  /\ bd.pc = "ready"
  /\ bd.callee = "convertDoiToCitation"
  /\ bd' = [pc |-> "awaitFetch", callee |-> bd.callee, doi |-> bd.doi,
            format |-> bd.format, style |-> bd.style,
            accept |-> AcceptOf(bd.format, bd.style)]
  /\ UNCHANGED bdRest

\* The request of convertDoiToCitation settles, with its text when it has
\* one: the rest of the try block, or the catch
ConvertSettles ==
  /\ bd.pc = "awaitFetch"
  /\ bd.callee = "convertDoiToCitation"
  /\ \E outcome \in ConvertOutcomes :
       bd' = [pc |-> "done", callee |-> bd.callee, doi |-> bd.doi,
              format |-> bd.format, style |-> bd.style, outcome |-> outcome,
              accept |-> bd.accept,
              ends |-> ConvertEnds(bd.doi, bd.format, outcome)]
  /\ UNCHANGED bdRest

BdNext ==
  \/ PaperMetadataCall
  \/ PaperMetadataSettles
  \/ ConvertCall
  \/ ConvertSettles

SpecBoundary == BdInit /\ [][BdNext]_vars

\* The upstream failures: no response after the retries, a status outside
\* 200..299 (a retryable one after the last retry included), a body that
\* cannot be read
UpstreamFailed(outcome) ==
  \/ outcome.kind = "error"
  \/ outcome.kind = "response" /\ ~(outcome.status \in 200..299)
  \/ outcome.kind = "response" /\ "body" \in DOMAIN outcome /\ outcome.body = "invalid"
  \/ outcome.kind = "response" /\ "text" \in DOMAIN outcome /\ outcome.text = "unreadable"

\* C15: getPaperMetadata and convertDoiToCitation end by returning, never by
\* throwing; after an upstream failure getPaperMetadata returns null and
\* convertDoiToCitation the text 'Error: Could not convert DOI <doi> to
\* <format> format'.
C15_BoundaryNeverRaises ==
  bd.pc = "done" =>
    /\ bd.ends.kind = "return"
    /\ (bd.callee = "getPaperMetadata" /\ UpstreamFailed(bd.outcome))
         => bd.ends.value = [isNull |-> TRUE]
    /\ (bd.callee = "convertDoiToCitation" /\ UpstreamFailed(bd.outcome))
         => bd.ends.value = [kind |-> "errorText", doi |-> bd.doi,
                             format |-> bd.format]

\* convertDoiToCitation has returned the error text for a request that was
\* still answered 503 after the last retry.
C15_Witness ==
  /\ bd.pc = "done"
  /\ bd.callee = "convertDoiToCitation"
  /\ bd.outcome.kind = "response"
  /\ bd.outcome.status = 503
  /\ bd.ends = [kind |-> "return",
                value |-> [kind |-> "errorText", doi |-> bd.doi,
                           format |-> bd.format]]

-----------------------------------------------------------------------------
(* The local formatters: CSL JSON to BibTeX and to RIS.  A value of the CSL
   record carries its JavaScript type; a string the code takes apart is the
   sequence of its characters, and a literal the code only writes out (a tag,
   an entry type, a field name) is one piece of the line it is written to.
   An output is the list of its lines, which the code joins by '\n'. *)

JUndefined == [t |-> "undefined"]
JNil == [t |-> "null"]
JStr(s) == [t |-> "string", str |-> s]
JNum(n) == [t |-> "number", num |-> n]
JArr(items) == [t |-> "array", items |-> items]
JObj(members) == [t |-> "object", members |-> members]

\* members[key] of a Record<string, unknown>
Member(members, key) ==
  IF key \in DOMAIN members THEN members[key] ELSE JUndefined

\* value[key] of any value: only an object has members of the model's keys
MemberOf(value, key) ==
  IF value.t = "object" THEN Member(value.members, key) ELSE JUndefined

\* !!value
Truthy(value) ==
  CASE value.t = "string" -> value.str # <<>>
    [] value.t = "number" -> value.num # 0
    [] value.t \in {"undefined", "null"} -> FALSE
    [] OTHER -> TRUE

\* typeof value === 'object'
TypeofObject(value) == value.t \in {"object", "array", "null"}

\* a ?? b
Coalesce(a, b) == IF a.t \in {"undefined", "null"} THEN b ELSE a

DigitChars == <<"0", "1", "2", "3", "4", "5", "6", "7", "8", "9">>

\* String(n) of an integer
RECURSIVE NatToString(_)
NatToString(n) ==
  IF n < 10 THEN <<DigitChars[n + 1]>>
  ELSE NatToString(n \div 10) \o <<DigitChars[(n % 10) + 1]>>

NumberToString(n) ==
  IF n < 0 THEN <<"-">> \o NatToString(0 - n) ELSE NatToString(n)

\* Array.prototype.join for a separator of any length
RECURSIVE JoinText(_, _)
JoinText(toks, sep) ==
  IF toks = <<>> THEN <<>>
  ELSE IF Len(toks) = 1 THEN toks[1]
  ELSE toks[1] \o sep \o JoinText(Tail(toks), sep)

toArray(value) ==
  IF ~Truthy(value) THEN <<>>
  ELSE IF value.t = "array" THEN value.items
  ELSE <<value>>

asString(value) == IF value.t = "string" THEN value ELSE JUndefined

getCslString(csl, key) == asString(Member(csl, key))

getCslNumber(csl, key) ==
  LET value == Member(csl, key)
  IN IF value.t = "number" THEN value ELSE JUndefined

getIssuedYear(csl) ==
  LET issued == Member(csl, "issued")
      dateParts == MemberOf(issued, "date-parts")
      first == dateParts.items[1]
      year == first.items[1]
  IN IF ~Truthy(issued) \/ ~TypeofObject(issued) THEN JUndefined
     ELSE IF dateParts.t # "array" \/ Len(dateParts.items) = 0 THEN JUndefined
     ELSE IF first.t # "array" \/ Len(first.items) = 0 THEN JUndefined
     ELSE IF year.t = "number" THEN JStr(NumberToString(year.num))
     ELSE IF year.t = "string" THEN year
     ELSE JUndefined

NonEmpty(str) == str # <<>>

\* asString(value) || ''
StringOrEmpty(value) == IF Truthy(asString(value)) THEN value.str ELSE <<>>

\* One pass of the loop over the authors: family && given ? `${family},
\* ${given}` : family || given, and '' for an author that is skipped
AuthorValue(author) ==
  LET family == StringOrEmpty(MemberOf(author, "family"))
      given == StringOrEmpty(MemberOf(author, "given"))
  IN IF ~Truthy(author) \/ ~TypeofObject(author) THEN <<>>
     ELSE IF family # <<>> /\ given # <<>> THEN family \o <<",", " ">> \o given
     ELSE IF family # <<>> THEN family
     ELSE given

\* The names pushed from the last author to the first
AuthorValues_Reversed(authors) ==
  SelectSeq([i \in 1..Len(authors.items) |->
               AuthorValue(authors.items[Len(authors.items) + 1 - i])], NonEmpty)

\* The names the loop pushes, in the order of the record
AuthorValues(authors) ==
  SelectSeq([i \in 1..Len(authors.items) |-> AuthorValue(authors.items[i])], NonEmpty)

formatAuthors(csl) ==
  LET authors == Member(csl, "author")
  IN IF authors.t # "array" THEN <<>> ELSE AuthorValues(authors)

formatBibtexAuthors(csl) ==
  LET authors == Member(csl, "author")
  IN IF authors.t # "array" \/ Len(authors.items) = 0 THEN JUndefined
     ELSE IF AuthorValues(authors) # <<>>
          THEN JStr(JoinText(AuthorValues(authors), <<" ", "a", "n", "d", " ">>))
          ELSE JUndefined

\* \s for the characters of the model
IsWhitespace(c) == c \in {" ", "\n", "\t"}

\* String.prototype.trim
Trim(str) ==
  LET kept == {i \in 1..Len(str) : ~IsWhitespace(str[i])}
  IN IF kept = {} THEN <<>>
     ELSE SubSeq(str, CHOOSE i \in kept : \A j \in kept : i <= j,
                      CHOOSE i \in kept : \A j \in kept : j <= i)

\* The four replacements of escapeBibtex, character by character: a backslash
\* is doubled before a brace gets its own, and a run of newlines is one space
RECURSIVE EscapeFrom(_, _)
EscapeFrom(value, i) ==
  IF i > Len(value) THEN <<>>
  ELSE (CASE value[i] = "\\" -> <<"\\", "\\">>
          [] value[i] = "{" -> <<"\\", "{">>
          [] value[i] = "}" -> <<"\\", "}">>
          [] value[i] = "\n" ->
               IF i > 1 /\ value[i - 1] = "\n" THEN <<>> ELSE <<" ">>
          [] OTHER -> <<value[i]>>)
       \o EscapeFrom(value, i + 1)

escapeBibtex(value) == Trim(EscapeFrom(value, 1))

\* [a-zA-Z0-9]
IsAlnum(c) == c \in Range(LOWER) \cup Range(UPPER) \cup DIGITS

Kept(c) == c # ""

\* replace(/[^a-zA-Z0-9]+/g, '_'): the first character of a run becomes the
\* underscore and the others go
ReplaceNonAlnumRuns(str) ==
  SelectSeq([i \in 1..Len(str) |->
               IF IsAlnum(str[i]) THEN str[i]
               ELSE IF i > 1 /\ ~IsAlnum(str[i - 1]) THEN ""
               ELSE "_"], Kept)

\* split(sep)[0]: what stands before the first sep, the string when it has none
SplitFirst(str, sep) ==
  LET hits == {i \in 1..Len(str) : str[i] = sep}
  IN IF hits = {} THEN str
     ELSE SubSeq(str, 1, (CHOOSE i \in hits : \A j \in hits : i <= j) - 1)

\* replace(/^_+|_+$/g, '')
TrimUnderscores(str) ==
  LET kept == {i \in 1..Len(str) : str[i] # "_"}
  IN IF kept = {} THEN <<>>
     ELSE SubSeq(str, CHOOSE i \in kept : \A j \in kept : i <= j,
                      CHOOSE i \in kept : \A j \in kept : j <= i)

\* The longest key makeBibtexKey returns
KEY_MAX == 80

\* The key as built, not cut
SliceKey_Off(key) == key

\* slice(0, 80)
SliceKey(key) == SubSeq(key, 1, Min(KEY_MAX, Len(key)))

makeBibtexKey(doi, csl) ==
  LET base == TrimUnderscores(ReplaceNonAlnumRuns(doi))
      year == getIssuedYear(csl)
      names == formatAuthors(csl)
      firstAuthorToken ==
        IF names # <<>> /\ names[1] # <<>>
        THEN SelectSeq(SplitFirst(names[1], ","), IsAlnum)
        ELSE <<>>
      key == SliceKey((IF firstAuthorToken # <<>> THEN firstAuthorToken
                       ELSE <<"r", "e", "f">>)
                      \o (IF Truthy(year) THEN <<"_">> \o year.str ELSE <<>>)
                      \o <<"_">> \o base)
  IN IF key # <<>> THEN key
     ELSE IF base # <<>> THEN base
     ELSE <<"r", "e", "f">>

\* The values of type the formatters tell apart, and one they do not
JOURNAL_ARTICLE == <<"j", "o", "u", "r", "n", "a", "l", "-", "a", "r", "t", "i", "c", "l", "e">>
BOOK == <<"b", "o", "o", "k">>
BOOK_CHAPTER == <<"b", "o", "o", "k", "-", "c", "h", "a", "p", "t", "e", "r">>
PROCEEDINGS_ARTICLE == <<"p", "r", "o", "c", "e", "e", "d", "i", "n", "g", "s", "-", "a", "r", "t", "i", "c", "l", "e">>
REPORT == <<"r", "e", "p", "o", "r", "t">>
THESIS == <<"t", "h", "e", "s", "i", "s">>
DATASET == <<"d", "a", "t", "a", "s", "e", "t">>

pickBibtexType_AllMisc(csl) == "misc"

pickBibtexType(csl) ==
  LET type == getCslString(csl, "type")
  IN IF type.t # "string" THEN "misc"
     ELSE CASE type.str = JOURNAL_ARTICLE -> "article"
            [] type.str = BOOK -> "book"
            [] type.str = BOOK_CHAPTER -> "incollection"
            [] type.str = PROCEEDINGS_ARTICLE -> "inproceedings"
            [] type.str = REPORT -> "techreport"
            [] type.str = THESIS -> "phdthesis"
            [] OTHER -> "misc"

\* toArray(getCslString(csl, 'container-title')).join(' ')
JournalOf(csl) ==
  LET titles == toArray(getCslString(csl, "container-title"))
  IN JoinText([i \in 1..Len(titles) |-> titles[i].str], <<" ">>)

\* The fields of cslToBibtex, in the order of the array
BibtexFields(doi, csl) ==
  <<[field |-> "title", value |-> getCslString(csl, "title")],
    [field |-> "author", value |-> formatBibtexAuthors(csl)],
    [field |-> "journal",
     value |-> IF JournalOf(csl) # <<>> THEN JStr(JournalOf(csl)) ELSE JUndefined],
    [field |-> "year", value |-> getIssuedYear(csl)],
    [field |-> "volume", value |-> getCslString(csl, "volume")],
    [field |-> "number",
     value |-> Coalesce(getCslString(csl, "issue"),
                        IF getCslNumber(csl, "issue").t # "undefined"
                        THEN JStr(NumberToString(getCslNumber(csl, "issue").num))
                        ELSE JUndefined)],
    [field |-> "pages", value |-> getCslString(csl, "page")],
    [field |-> "publisher", value |-> getCslString(csl, "publisher")],
    [field |-> "doi", value |-> Coalesce(getCslString(csl, "DOI"), JStr(doi))],
    [field |-> "url", value |-> getCslString(csl, "URL")]>>

\* `  ${field} = {${escapeBibtex(value)}},`
BibtexLine(f) == <<"  ", f.field, " = {">> \o escapeBibtex(f.value.str) \o <<"},">>

\* `@${entryType}{${key},`
BibtexHead(entryType, key) == <<"@", entryType, "{">> \o key \o <<",">>

HasValue(f) == Truthy(f.value)

cslToBibtex(doi, csl) ==
  LET kept == SelectSeq(BibtexFields(doi, csl), HasValue)
  IN <<BibtexHead(pickBibtexType(csl), makeBibtexKey(doi, csl))>>
       \o [i \in 1..Len(kept) |-> BibtexLine(kept[i])]
       \o << <<"}">> >>

\* The TY of cslToRis
RisType(csl) ==
  LET type == getCslString(csl, "type")
  IN IF type.t # "string" THEN "JOUR"
     ELSE CASE type.str = BOOK -> "BOOK"
            [] type.str = BOOK_CHAPTER -> "CHAP"
            [] type.str = PROCEEDINGS_ARTICLE -> "CPAPER"
            [] OTHER -> "JOUR"

\* A line for every tag, with or without a value
RisLine_Always(tag, value) ==
  << <<tag, "  - ">> \o (IF Truthy(value) THEN value.str ELSE <<>>) >>

\* `${tag}  - ${value}` when value is truthy, no line otherwise
RisLine(tag, value) ==
  IF Truthy(value) THEN << <<tag, "  - ">> \o value.str >> ELSE <<>>

RisAuthorLine(name) == <<"AU", "  - ">> \o name

cslToRis(csl) ==
  LET authors == Member(csl, "author")
      names == IF authors.t = "array" THEN AuthorValues(authors) ELSE <<>>
      issue == Coalesce(getCslString(csl, "issue"),
                        IF Truthy(getCslNumber(csl, "issue"))
                        THEN JStr(NumberToString(getCslNumber(csl, "issue").num))
                        ELSE JUndefined)
  IN << <<"TY", "  - ", RisType(csl)>> >>
       \o [i \in 1..Len(names) |-> RisAuthorLine(names[i])]
       \o RisLine("TI", getCslString(csl, "title"))
       \o RisLine("JO", JStr(JournalOf(csl)))
       \o RisLine("PY", getIssuedYear(csl))
       \o RisLine("VL", getCslString(csl, "volume"))
       \o RisLine("IS", issue)
       \o RisLine("SP", getCslString(csl, "page"))
       \o RisLine("DO", getCslString(csl, "DOI"))
       \o RisLine("UR", getCslString(csl, "URL"))
       \o << <<"ER", "  -">> >>

\* The length of the long DOI, surname and year of the model: past KEY_MAX
LongLen == 85

Repeat(c, n) == [i \in 1..n |-> c]

\* A record with key set to value, or without key when value is undefined
Assign(members, key, value) ==
  IF value.t = "undefined"
  THEN [k \in (DOMAIN members) \ {key} |-> members[k]]
  ELSE [k \in (DOMAIN members) \cup {key} |-> IF k = key THEN value ELSE members[k]]

IssuedOf(year) == JObj([k \in {"date-parts"} |-> JArr(<<JArr(<<year>>)>>)])

FieldKeys ==
  {"title", "container-title", "issued", "volume", "issue", "page", "publisher",
   "DOI", "URL"}

\* The value a field has in a well-formed record
FieldValue(key) ==
  CASE key = "title" -> JStr(<<"T", "i">>)
    [] key = "container-title" -> JStr(<<"J">>)
    [] key = "issued" -> IssuedOf(JNum(2001))
    [] key = "volume" -> JStr(<<"4">>)
    [] key = "issue" -> JStr(<<"2">>)
    [] key = "page" -> JStr(<<"1", "-", "9">>)
    [] key = "publisher" -> JStr(<<"P">>)
    [] key = "DOI" -> JStr(<<"1", "0", ".", "9", "/", "x">>)
    [] key = "URL" -> JStr(<<"u">>)

\* Other values CSL JSON may hold there
OtherValues(key) ==
  CASE key = "title" ->
         {JStr(<<>>), JArr(<<JStr(<<"T">>)>>),
          JStr(<<" ", "{", "a", "}", "\n", "\n", "\\", "b", " ">>)}
    [] key = "container-title" -> {JArr(<<JStr(<<"J">>)>>), JStr(<<>>)}
    [] key = "issued" ->
         {JNil, JStr(<<"2", "0", "0", "1">>), JArr(<<>>),
          JObj([k \in {"raw"} |-> JStr(<<"2", "0", "0", "1">>)]),
          JObj([k \in {"date-parts"} |-> JArr(<<>>)]),
          JObj([k \in {"date-parts"} |-> JArr(<<JArr(<<>>)>>)]),
          IssuedOf(JNil), IssuedOf(JStr(<<>>)),
          IssuedOf(JStr(<<"1", "9", "9", "9">>)),
          IssuedOf(JStr(Repeat("9", LongLen))),
          IssuedOf(JNum(0 - 44))}
    [] key = "volume" -> {JNum(12), JStr(<<>>)}
    [] key = "issue" -> {JNum(7), JNum(0), JStr(<<>>)}
    [] key = "page" -> {JStr(<<>>)}
    [] key = "publisher" -> {JNum(1)}
    [] key = "DOI" -> {JStr(<<>>), JNum(5)}
    [] key = "URL" -> {JNil}

TypeValues ==
  {JUndefined, JNum(1), JStr(JOURNAL_ARTICLE), JStr(BOOK),
   JStr(BOOK_CHAPTER), JStr(PROCEEDINGS_ARTICLE), JStr(REPORT),
   JStr(THESIS), JStr(DATASET)}

Person(family, given) ==
  JObj([k \in {"family", "given"} |-> IF k = "family" THEN family ELSE given])

Smith == Person(JStr(<<"S", "m", "i", "t", "h">>), JStr(<<"J">>))

CslAuthorLists ==
  {JUndefined, JStr(<<"S", "m", "i", "t", "h">>), JArr(<<>>),
   JArr(<<Smith>>),
   JArr(<<JObj([k \in {"family"} |-> JStr(<<"L", "e", "e">>)]), Smith>>),
   JArr(<<JObj([k \in {"given"} |-> JStr(<<"A", "n", "n">>)])>>),
   JArr(<<JNil, JStr(<<"x">>), Smith>>),
   JArr(<<JObj([k \in {"literal"} |-> JStr(<<"W", "H", "O">>)])>>),
   JArr(<<Person(JStr(<<"O", "'", "N", "e", "i", "l">>), JNum(1))>>),
   JArr(<<Person(JStr(<<"-", "-">>), JStr(<<>>))>>),
   JArr(<<Person(JStr(Repeat("a", LongLen)), JStr(<<"B">>))>>)}

NoFields == [k \in {} |-> JUndefined]
AllFields == [k \in FieldKeys |-> FieldValue(k)]

\* The CSL records of the model: every choice of well-formed fields, each other
\* value in a record with no or every other field, and every type with every
\* list of authors
CslSet ==
  {[k \in keys |-> FieldValue(k)] : keys \in SUBSET FieldKeys}
    \cup UNION {{Assign(base, key, value) : value \in OtherValues(key)} :
                  base \in {NoFields, AllFields}, key \in FieldKeys}
    \cup {Assign(Assign(base, "type", type), "author", authors) :
            base \in {NoFields, AllFields}, type \in TypeValues,
            authors \in CslAuthorLists}

\* A DOI with a brace, one that is only white space, and one with every
\* character escapeBibtex rewrites and white space at both ends
DoiBrace == <<"a", "{", "b">>
DoiBlank == <<" ">>
DoiEscaped == <<" ", "a", "\\", "}", "\n", "\n", "b", "\n">>

\* The DOIs cslToBibtex is called with
DoiArgs ==
  {<<>>, <<"1", "0", ".", "1", "/", "a">>, <<"/", "/">>,
   <<"1", "0", ".", "1", "/">> \o Repeat("x", LongLen),
   DoiBrace, DoiBlank, DoiEscaped}

CfInit ==
  /\ CoreIdle
  /\ EarlierIdle
  /\ PkIdle
  /\ PageIdle
  /\ FnIdle
  /\ BdIdle
  /\ CfIdle
  /\ GcIdle

cfRest == <<exVars, fwVars, frVars, mapVars, pool, earlier, pk, page, fn, bd, gc>>

CslToBibtexCall ==
  /\ cf.pc = "idle"
  /\ \E doi \in DoiArgs, csl \in CslSet :
       cf' = [pc |-> "done", op |-> "cslToBibtex", doi |-> doi, csl |-> csl,
              key |-> makeBibtexKey(doi, csl),
              lines |-> cslToBibtex(doi, csl)]
  /\ UNCHANGED cfRest

CslToRisCall ==
  /\ cf.pc = "idle"
  /\ \E csl \in CslSet :
       cf' = [pc |-> "done", op |-> "cslToRis", csl |-> csl,
              lines |-> cslToRis(csl)]
  /\ UNCHANGED cfRest

CfNext == CslToBibtexCall \/ CslToRisCall

SpecFormat == CfInit /\ [][CfNext]_vars

-----------------------------------------------------------------------------
(* generateCitations and downloadReferences, one call at a time.  A text made
   by join is the list of its pieces; the name of the saved file is kept as
   the parts it is put together from. *)

MaxPkRefs == 2

PkDoiA == <<"1", "0", ".", "1", "/", "a">>
PkDoiB == <<"1", "0", ".", "2", "/", "b">>

\* A reference whose metadata was fetched, and one that kept only its DOI
PkCsl ==
  [title |-> JStr(<<"D", "e", "e", "p">>),
   author |-> JArr(<<Smith>>),
   issued |-> IssuedOf(JNum(2001))]
RefWithCsl(doi) ==
  [doi |-> doi,
   csl |-> PkCsl,
   title |-> <<"D", "e", "e", "p">>,
   authors |-> << <<"S", "m", "i", "t", "h", ",", " ", "J">> >>,
   year |-> <<"2", "0", "0", "1">>]
RefDoiOnly(doi) == [doi |-> doi]

PkRefSet == {RefWithCsl(PkDoiA), RefWithCsl(PkDoiB), RefDoiOnly(PkDoiA)}

\* What fetchWithRetry gives the requests of a packaging call: it throws, it
\* returns the citation, or it returns 503 after its last retry
PkOutcomes ==
  {[kind |-> "error"],
   [kind |-> "response", status |-> 200, text |-> "ok"],
   [kind |-> "response", status |-> 503, text |-> "ok"]}

\* The options HomePage calls the two functions with
OptionSet ==
  [format : {BIBTEX, RIS, TURTLE}, isPlainText : {FALSE}, singleFile : BOOLEAN]
    \cup [format : {APA}, isPlainText : {TRUE}, singleFile : {TRUE}]

\* FORMAT_EXTENSIONS[format] || '.txt'
ExtensionOf(format) ==
  CASE format = BIBTEX -> <<".", "b", "i", "b">>
    [] format = RIS -> <<".", "r", "i", "s">>
    [] format = TURTLE -> <<".", "t", "t", "l">>
    [] OTHER -> <<".", "t", "x", "t">>

\* The loop of generateCitations with every reference sent to the resolver
GenerateLocally_Never(format, ref) == FALSE

\* generateCitations: the reference is formatted without a request
GenerateLocally(format, ref) ==
  (format = BIBTEX \/ format = RIS) /\ "csl" \in DOMAIN ref

\* downloadReferences, the loop of the archive: the same choice
ZipLocally(format, ref) ==
  \/ format = BIBTEX /\ "csl" \in DOMAIN ref
  \/ format = RIS /\ "csl" \in DOMAIN ref

LocalCitation(format, ref) ==
  IF format = BIBTEX
  THEN [kind |-> "bibtex", text |-> cslToBibtex(ref.doi, ref.csl)]
  ELSE [kind |-> "ris", text |-> cslToRis(ref.csl)]

\* zip.file(name, data): a second file of the same name takes the place of
\* the first
ZipFile(zip, name, data) ==
  [n \in (DOMAIN zip) \cup {name} |-> IF n = name THEN data ELSE zip[n]]

\* The slug of the saved file: of the title of the paper when there is one,
\* else of the root DOI
PaperName(st) ==
  IF st.paperTitle # NULL THEN [slugOf |-> st.paperTitle]
  ELSE [slugOf |-> st.mainDoi]

\* The workers of the loop for the formats that are not made locally
GENERATE_CONCURRENCY == 1

\* format === 'application/x-bibtex' || format === 'application/x-research-info-systems'
LocalFormat(format) == format = BIBTEX \/ format = RIS

\* The locals of a call, with what it reads of the state it was made in;
\* inflight holds the references whose conversion the call waits for
PkStart(op, options, st) ==
  [pc |-> "running", op |-> op, options |-> options,
   references |-> st.references, paperTitle |-> st.paperTitle,
   mainDoi |-> st.mainDoi, loop |-> "none", i |-> 1,
   nextIndex |-> 0, inflight |-> <<>>, slot |-> [k \in {} |-> 0],
   citations |-> <<>>, zip |-> <<>>, count |-> 0,
   generateRequests |-> {}, zipRequests |-> {},
   saved |-> <<>>, returned |-> NoValue, saveFails |-> FALSE]

\* The loop of generateCitations from reference i to the next request, or to
\* its end (pc "generated"); m holds the session and the locals
RECURSIVE GenerateRun(_)
GenerateRun(m) ==
  IF m.p.i > Len(m.p.references)
  THEN [m EXCEPT !.p.pc = "generated"]
  ELSE IF GenerateLocally(m.p.options.format, m.p.references[m.p.i])
  THEN GenerateRun(
         [m EXCEPT !.p.citations =
                      Append(@, LocalCitation(m.p.options.format,
                                              m.p.references[m.p.i])),
                   !.p.i = @ + 1])
  ELSE [m EXCEPT !.p.pc = "awaitConvert",
                 !.p.loop = "generate",
                 !.p.inflight = <<m.p.i>>,
                 !.p.generateRequests = @ \cup {m.p.i}]

\* The citations array as far as it is filled from its start
FilledPrefix(slot, n) ==
  LET len == Cardinality({k \in 1..n : \A j \in 1..k : j \in DOMAIN slot})
  IN [j \in 1..len |-> slot[j]]

\* A worker of the second loop at the head of its while: it claims the next
\* reference and asks for its conversion, or leaves the loop
StyleWorkerRun(m) ==
  IF m.p.nextIndex < Len(m.p.references)
  THEN [m EXCEPT !.p.nextIndex = @ + 1,
                 !.p.inflight = Append(@, m.p.nextIndex + 1),
                 !.p.generateRequests = @ \cup {m.p.nextIndex + 1}]
  ELSE m

\* One worker more than concurrency says
RECURSIVE StyleWorkers_OneMore(_, _)
StyleWorkers_OneMore(m, w) ==
  IF w > GENERATE_CONCURRENCY + 1 THEN m
  ELSE StyleWorkers_OneMore(StyleWorkerRun(m), w + 1)

\* Array.from({ length: concurrency }, async () => ...): every worker up to
\* its first await
RECURSIVE StyleWorkers(_, _)
StyleWorkers(m, w) ==
  IF w > GENERATE_CONCURRENCY THEN m ELSE StyleWorkers(StyleWorkerRun(m), w + 1)

\* Where the second loop stands: waiting, or through (await Promise.all)
StyleStands(m) ==
  IF m.p.inflight = <<>>
  THEN [m EXCEPT !.p.pc = "generated",
                 !.p.citations = [j \in 1..Len(m.p.references) |-> m.p.slot[j]]]
  ELSE [m EXCEPT !.p.pc = "awaitConvert",
                 !.p.loop = "generate",
                 !.p.i = m.p.inflight[1],
                 !.p.citations = FilledPrefix(m.p.slot, Len(m.p.references))]

\* The second loop from its start to the first awaits of its workers
StyleStart(m) == StyleStands(StyleWorkers(m, 1))

\* The worker whose conversion, the k-th in flight, gave citation: it stores
\* the citation at its own index and goes round its loop
StyleResume(m, k, citation) ==
  LET index == m.p.inflight[k]
      stored == [m EXCEPT !.p.inflight = RemoveAt(@, k),
                          !.p.slot = [j \in (DOMAIN @) \cup {index} |->
                                        IF j = index THEN citation ELSE @[j]]]
  IN StyleStands(StyleWorkerRun(stored))

\* The finally of downloadReferences with progress left as it stands
DownloadFinally_KeepsProgress(m) ==
  [m EXCEPT !.s.isLoading = FALSE, !.p.pc = "done"]

\* The finally of downloadReferences
DownloadFinally(m) ==
  [m EXCEPT !.s.isLoading = FALSE, !.s.progress = 0, !.p.pc = "done"]

\* What an async function gives that ends without a return
JsUndefined == [isNull |-> FALSE, isUndefined |-> TRUE]

\* error.message of what saveAs throws
SAVE_ERROR == "saveAs failed"

\* The catch of downloadReferences
DownloadCatch(m, message) ==
  [m EXCEPT !.s.error = message,
            !.s.isLoading = FALSE,
            !.p.returned = JsUndefined]

\* saveAs(blob, filename) and the return behind it, or the catch of what
\* saveAs throws
SaveAs(m, file, value) ==
  IF m.p.saveFails
  THEN DownloadCatch(m, SAVE_ERROR)
  ELSE [m EXCEPT !.p.saved = Append(@, file), !.p.returned = value]

\* One pass of the loop of the archive with progress in thousandths
ZipAdd_Thousandths(m, citation) ==
  LET ref == m.p.references[m.p.i]
      filename == getFilenameFromDoiRef(ref) \o ExtensionOf(m.p.options.format)
  IN [m EXCEPT !.p.zip = ZipFile(@, filename, citation),
               !.p.count = @ + 1,
               !.p.i = @ + 1,
               !.s.progress = RoundDiv((m.p.count + 1) * 1000, Len(m.p.references))]

\* One pass of the loop of the archive with the citation in hand
ZipAdd(m, citation) ==
  LET ref == m.p.references[m.p.i]
      filename == getFilenameFromDoiRef(ref) \o ExtensionOf(m.p.options.format)
  IN [m EXCEPT !.p.zip = ZipFile(@, filename, citation),
               !.p.count = @ + 1,
               !.p.i = @ + 1,
               !.s.progress = RoundDiv((m.p.count + 1) * 100, Len(m.p.references))]

\* downloadReferences after await zip.generateAsync({ type: 'blob' }): the
\* archive is saved, null is returned
ZipSave(m) ==
  DownloadFinally(
    SaveAs(m, [name |-> PaperName(m.p),
               kind |-> "zip",
               format |-> m.p.options.format,
               files |-> m.p.zip],
           JsNull))

\* The loop of the archive from reference i to the next request, or to the
\* wait for the archive behind its end
RECURSIVE ZipRun(_)
ZipRun(m) ==
  IF m.p.i > Len(m.p.references)
  THEN [m EXCEPT !.p.pc = "awaitZip", !.p.loop = "zip"]
  ELSE IF ZipLocally(m.p.options.format, m.p.references[m.p.i])
  THEN ZipRun(ZipAdd(m, LocalCitation(m.p.options.format, m.p.references[m.p.i])))
  ELSE [m EXCEPT !.p.pc = "awaitConvert",
                 !.p.loop = "zip",
                 !.p.inflight = <<m.p.i>>,
                 !.p.zipRequests = @ \cup {m.p.i}]

\* downloadReferences once it has its content
DownloadWith(m, content) ==
  IF m.p.options.isPlainText \/ m.p.options.singleFile
  THEN DownloadFinally(
         SaveAs(m, [name |-> PaperName(m.p),
                    kind |-> "text",
                    extension |->
                      (IF m.p.options.isPlainText
                       THEN <<".", "t", "x", "t">>
                       ELSE ExtensionOf(m.p.options.format)),
                    content |-> content],
                JsValue(content)))
  ELSE ZipRun([m EXCEPT !.p.i = 1, !.p.loop = "zip"])

\* generateCitations past its loop: the join, the update, the return, and the
\* caller's continuation when the caller is downloadReferences
GenerateEnd(m) ==
  LET content == m.p.citations
      updated == [m EXCEPT !.s.citationText = content,
                           !.s.generatingCitations = FALSE]
  IN IF m.p.op = "generateCitations"
     THEN [updated EXCEPT !.p.pc = "done", !.p.returned = JsValue(content)]
     ELSE DownloadWith(updated, content)

\* generateCitations(options) from its call to its first request
GenerateBegin(m) ==
  LET begun == [m EXCEPT !.s.generatingCitations = TRUE, !.p.loop = "generate"]
      ran == IF LocalFormat(m.p.options.format)
             THEN GenerateRun(begun) ELSE StyleStart(begun)
  IN IF ran.p.pc = "generated" THEN GenerateEnd(ran) ELSE ran

\* generateCitations after the conversion it waited for, the k-th in flight,
\* gave citation: on to its next request or through its end
GenerateResume(m, k, citation) ==
  LET ran == IF LocalFormat(m.p.options.format)
             THEN GenerateRun([m EXCEPT !.p.inflight = <<>>,
                                        !.p.citations = Append(@, citation),
                                        !.p.i = @ + 1])
             ELSE StyleResume(m, k, citation)
  IN IF ran.p.pc = "generated" THEN GenerateEnd(ran) ELSE ran

PkInit ==
  /\ ExIdle
  /\ FwIdle
  /\ pool = [status |-> "idle"]
  /\ completionOrder = <<>>
  /\ rejections = <<>>
  /\ EarlierIdle
  /\ PageIdle
  /\ FnIdle
  /\ BdIdle
  /\ CfIdle
  /\ GcIdle
  /\ PkIdle
  \* the session as a resolution left it
  /\ frPc = "idle"
  /\ frDoi = ""
  /\ citedDois = <<>>
  /\ tickTimer = FALSE
  /\ uiUpdated = FALSE
  /\ lastCompleted = 0
  /\ apiTokens = <<>>
  /\ refsOutcome = "none"
  /\ failedItems = {}
  /\ requests = NoRequests
  /\ \E title \in {NULL, "Title"}, refs \in SeqsUpTo(PkRefSet, MaxPkRefs) :
       \* without references the call ended before it asked for the title
       /\ refs = <<>> => title = NULL
       /\ state = [isLoading |-> FALSE,
                   error |-> (IF refs = <<>> THEN NO_REFERENCES_MSG ELSE NULL),
                   progress |-> (IF refs = <<>> THEN 0 ELSE PROGRESS_DONE),
                   mainDoi |-> "10.1/root", paperTitle |-> title,
                   references |-> refs, citationText |-> <<>>,
                   generatingCitations |-> FALSE]

pkRest == <<exVars, fwVars, mapVars, pool, frPc, frDoi, citedDois, tickTimer,
            uiUpdated, lastCompleted, apiTokens, refsOutcome, failedItems,
            requests, earlier, page, fn, bd, cf, gc>>

\* generateCitations(options), up to its first request or its end
GenerateCitationsCall ==
  /\ pk.pc \in {"idle", "done"}
  /\ \E options \in OptionSet :
       IF Len(state.references) = 0
       THEN /\ pk' = [PkStart("generateCitations", options, state) EXCEPT
                        !.pc = "done", !.returned = JsValue(<<>>)]
            /\ UNCHANGED state
       ELSE LET m == GenerateBegin([s |-> state,
                                    p |-> PkStart("generateCitations", options, state)])
            IN /\ pk' = m.p
               /\ state' = m.s
  /\ UNCHANGED pkRest

\* downloadReferences(options), up to its first request or its end, where
\* saveAs works or throws as saveFails says
DownloadReferences(saveFails) ==
  \E options \in OptionSet :
    LET start == [PkStart("downloadReferences", options, state) EXCEPT
                    !.saveFails = saveFails]
    IN IF Len(state.references) = 0
       THEN /\ pk' = [start EXCEPT !.pc = "done", !.returned = JsNull]
            /\ UNCHANGED state
       ELSE LET begun == [s |-> [state EXCEPT !.isLoading = TRUE, !.progress = 0],
                          p |-> start]
                m == IF state.citationText = <<>>
                     THEN GenerateBegin(begun)
                     ELSE DownloadWith(begun, state.citationText)
            IN /\ pk' = m.p
               /\ state' = m.s

\* downloadReferences(options) where files can be saved
DownloadReferencesCall ==
  /\ pk.pc \in {"idle", "done"}
  /\ DownloadReferences(FALSE)
  /\ UNCHANGED pkRest

\* downloadReferences(options) where saveAs throws
DownloadReferencesCallSaveThrows ==
  /\ pk.pc \in {"idle", "done"}
  /\ DownloadReferences(TRUE)
  /\ UNCHANGED pkRest

\* The request of the reference the call waits for settles
ConversionSettles ==
  /\ pk.pc = "awaitConvert"
  /\ \E k \in 1..Len(pk.inflight), outcome \in PkOutcomes :
       LET ref == pk.references[pk.inflight[k]]
           citation == convertDoiToCitation(ref.doi, pk.options.format, outcome)
           here == [s |-> state, p |-> [pk EXCEPT !.pc = "running"]]
           m == IF pk.loop = "generate"
                THEN GenerateResume(here, k, citation)
                ELSE ZipRun(ZipAdd([here EXCEPT !.p.inflight = <<>>], citation))
       IN /\ pk' = m.p
          /\ state' = m.s
  /\ UNCHANGED pkRest

\* zip.generateAsync settles with the blob of the archive
ArchiveGenerated ==
  /\ pk.pc = "awaitZip"
  /\ LET m == ZipSave([s |-> state, p |-> [pk EXCEPT !.pc = "running"]])
     IN /\ pk' = m.p
        /\ state' = m.s
  /\ UNCHANGED pkRest

PkNext ==
  \/ GenerateCitationsCall
  \/ DownloadReferencesCall
  \/ ConversionSettles
  \/ ArchiveGenerated

SpecPackage == PkInit /\ [][PkNext]_vars

\* The packaging calls where saveAs may throw
SaveFaultNext == PkNext \/ DownloadReferencesCallSaveThrows

SpecSaveFault == PkInit /\ [][SaveFaultNext]_vars

\* C16 as stated: a reference whose conversion failed is left out: when the
\* call has ended, no entry of the archive and no piece of the content is the
\* text of a failed conversion.
C16_FailedConversionSkipped ==
  pk.pc = "done" =>
    /\ \A n \in DOMAIN pk.zip : pk.zip[n].kind # "errorText"
    /\ \A k \in 1..Len(pk.citations) : pk.citations[k].kind # "errorText"
    /\ \A k \in 1..Len(state.citationText) :
         state.citationText[k].kind # "errorText"

\* The reference needs the resolver: the format is not BibTeX or RIS, or the
\* reference has no csl record
RemoteWanted(format, ref) ==
  format \notin {"application/x-bibtex", "application/x-research-info-systems"}
    \/ "csl" \notin DOMAIN ref

\* The references the loop of generateCitations, and of the archive, has come to
GenerateReached ==
  {i \in 1..Len(pk.references) :
     \/ i <= Len(pk.citations)
     \/ pk.pc = "awaitConvert" /\ pk.loop = "generate" /\ i = pk.i}
ZipReached ==
  {i \in 1..Len(pk.references) :
     \/ i <= pk.count
     \/ pk.pc = "awaitConvert" /\ pk.loop = "zip" /\ i = pk.i}

\* C17: in both loops a conversion request is issued for a reference exactly
\* when the format is not BibTeX/RIS or the reference has no csl record; for
\* BibTeX/RIS with a csl record the citation is the local formatter's.
C17_RemoteOnlyWhenNeeded ==
  pk.pc # "idle" =>
    /\ pk.generateRequests =
         {i \in GenerateReached : RemoteWanted(pk.options.format, pk.references[i])}
    /\ pk.zipRequests =
         {i \in ZipReached : RemoteWanted(pk.options.format, pk.references[i])}
    /\ \A i \in 1..Len(pk.citations) :
         ~RemoteWanted(pk.options.format, pk.references[i])
            => pk.citations[i].kind \in {"bibtex", "ris"}

\* A BibTeX archive of a reference with csl and one without: one request in
\* each loop, for the second reference, and none for the first.
C17_Witness ==
  /\ pk.pc = "done"
  /\ pk.op = "downloadReferences"
  /\ pk.options.format = "application/x-bibtex"
  /\ ~pk.options.singleFile
  /\ Len(pk.references) = 2
  /\ "csl" \in DOMAIN pk.references[1]
  /\ "csl" \notin DOMAIN pk.references[2]
  /\ pk.generateRequests = {2}
  /\ pk.zipRequests = {2}
  /\ pk.citations[1].kind = "bibtex"

\* C18 as stated: the archive a multi-file download saves has one entry per
\* reference.
C18_OneEntryPerReference ==
  (pk.pc = "done" /\ pk.saved # <<>> /\ pk.saved[1].kind = "zip") =>
     Cardinality(DOMAIN pk.saved[1].files) = Len(pk.references)

\* ---------------------------------------------------------------------------
\* The page: HomePage.tsx over the session of useDoiReferences
\* ---------------------------------------------------------------------------

\* How many times handleSubmit runs in one life of the page
MaxSubmits == 3

INVALID_DOI_TOAST == "Please enter a valid DOI"

\* The texts of the input for which mainDoi.trim() is empty
BlankTexts == {"", " "}
InputTexts == BlankTexts \cup RootDois
\* One of the DOIs of the "Try:" line
ExampleDois == {"10.1021/ar500432k"}
\* The route parameter of "/:doi?"
UrlDois == {NULL} \cup RootDois

IsBlank(text) == text \in BlankTexts

\* The condition of the URL effect: urlDoi && urlDoi !== mainDoi, where mainDoi
\* is the value of the render the effect belongs to
UrlEffectFires(urlDoi, mainDoi) ==
  /\ urlDoi # NULL
  /\ urlDoi # ""
  /\ urlDoi # mainDoi

\* What handleSubmit of a render that saw mainDoi does to the page: a toast, or
\* the DOI in the URL and a call of fetchReferences. After navigate the route
\* parameter equals the mainDoi the reset writes, so the URL effect of the next
\* render does not fire.
Submitted(pg, mainDoi) ==
  IF IsBlank(mainDoi)
  THEN [pg EXCEPT !.toasts = Append(@, INVALID_DOI_TOAST)]
  ELSE [pg EXCEPT !.urlDoi = mainDoi, !.fetched = Append(@, mainDoi)]

\* ... and to the session; queued is the session after the updates the caller
\* queued before the call
HandleSubmit(mainDoi, queued) ==
  IF IsBlank(mainDoi)
  THEN /\ state' = queued
       /\ UNCHANGED <<frPc, frDoi, citedDois, tickTimer, uiUpdated, lastCompleted,
                      apiTokens, refsOutcome, failedItems, requests, pool,
                      exVars, fwVars, mapVars>>
  ELSE FetchReferencesInvoke(mainDoi)

pageRest == <<earlier, pk, fn, bd, cf, gc>>

PageInit ==
  /\ ExIdle
  /\ FwIdle
  /\ pool = [status |-> "idle"]
  /\ completionOrder = <<>>
  /\ rejections = <<>>
  /\ FrIdle
  /\ EarlierIdle
  /\ PkIdle
  /\ FnIdle
  /\ BdIdle
  /\ CfIdle
  /\ GcIdle
  /\ page = [pc |-> "unloaded"]

\* The page is loaded at "/" or at "/<doi>": the first render sees the initial
\* session, and the URL effect runs with that render's mainDoi and handleSubmit
PageLoad ==
  /\ page.pc = "unloaded"
  /\ \E url \in UrlDois :
       LET loaded == [pc |-> "loaded", loadUrl |-> url, urlDoi |-> url,
                      toasts |-> <<>>, fetched |-> <<>>]
           mainDoi == state.mainDoi
       IN  IF UrlEffectFires(url, mainDoi)
           THEN /\ page' = Submitted(loaded, mainDoi)
                /\ HandleSubmit(mainDoi, [state EXCEPT !.mainDoi = url])
           ELSE /\ page' = loaded
                /\ UNCHANGED <<frVars, pool, exVars, fwVars, mapVars>>
  /\ UNCHANGED pageRest

\* setMainDoi from the input, which is disabled while isLoading
InputChange ==
  /\ page.pc = "loaded"
  /\ ~state.isLoading
  /\ \E text \in InputTexts : state' = [state EXCEPT !.mainDoi = text]
  /\ UNCHANGED <<frPc, frDoi, citedDois, tickTimer, uiUpdated, lastCompleted,
                 apiTokens, refsOutcome, failedItems, requests, pool,
                 exVars, fwVars, mapVars, restVars>>

\* setMainDoi from a DOI of the "Try:" line
ExampleClick ==
  /\ page.pc = "loaded"
  /\ \E doi \in ExampleDois :
       state' = [state EXCEPT !.mainDoi = doi]
  /\ UNCHANGED <<frPc, frDoi, citedDois, tickTimer, uiUpdated, lastCompleted,
                 apiTokens, refsOutcome, failedItems, requests, pool,
                 exVars, fwVars, mapVars, restVars>>

\* The button or Enter in the input, both disabled while isLoading
SubmitClick ==
  /\ page.pc = "loaded"
  /\ ~state.isLoading
  /\ Len(page.toasts) + Len(page.fetched) < MaxSubmits
  /\ page' = Submitted(page, state.mainDoi)
  /\ HandleSubmit(state.mainDoi, state)
  /\ UNCHANGED pageRest

PageNext ==
  \/ PageLoad
  \/ InputChange
  \/ ExampleClick
  \/ SubmitClick
  \/ (ReferencesSettle /\ Len(apiTokens') <= MaxOverlapRefs)
  \/ TitleSettle
  \/ Tick
  \/ MetadataSettle

SpecPage == PageInit /\ [][PageNext]_vars

\* C19 as stated: a page loaded with a DOI in the URL has called
\* fetchReferences with that DOI, first and without anything the user did.
C19_UrlDoiStartsResolution ==
  (page.pc = "loaded" /\ page.loadUrl # NULL) =>
     /\ page.fetched # <<>>
     /\ page.fetched[1] = page.loadUrl

\* ---------------------------------------------------------------------------
\* Claims about the local formatters
\* ---------------------------------------------------------------------------

BibtexDone == cf.pc = "done" /\ cf.op = "cslToBibtex"
RisDone == cf.pc = "done" /\ cf.op = "cslToRis"

\* C21: the citation key of cslToBibtex, the one its first line carries, is
\* never longer than 80 characters, whatever the DOI, the surname of the first
\* author and the year.
C21_KeyAtMost80 ==
  BibtexDone =>
    /\ Len(cf.key) <= KEY_MAX
    /\ cf.lines[1] = BibtexHead(pickBibtexType(cf.csl), cf.key)

\* A DOI of more than 80 characters has given a key of exactly 80, the start
\* of ref_ and the DOI's slug.
C21_Witness ==
  /\ BibtexDone
  /\ Len(cf.doi) > KEY_MAX
  /\ cf.csl = NoFields
  /\ Len(cf.key) = KEY_MAX
  /\ SubSeq(cf.key, 1, 9) = <<"r", "e", "f", "_", "1", "0", "_", "1", "_">>

RisSkeleton == << <<"TY", "  - ", "JOUR">>, <<"ER", "  -">> >>

\* C22 as stated: for a record with no field at all, cslToBibtex gives only
\* the lines @misc{ref, and } and cslToRis only the TY JOUR and ER lines.
C22_BareSkeletonAsStated ==
  /\ (BibtexDone /\ cf.csl = NoFields) =>
        cf.lines = <<BibtexHead("misc", <<"r", "e", "f">>), <<"}">> >>
  /\ (RisDone /\ cf.csl = NoFields) => cf.lines = RisSkeleton

\* C22, amended: for a record with no field at all, cslToBibtex gives the
\* line @misc{key, with a key that starts with ref_ and goes on with the slug
\* of the DOI argument, then, when the DOI argument is not empty, the doi
\* field of that argument as escapeBibtex writes it (every backslash
\* doubled, a backslash before every brace, a run of newlines as one space,
\* white space cut from both ends, so that the value may be empty), then };
\* cslToRis gives only the TY JOUR and ER lines.
C22_BareRecordOutput ==
  /\ (BibtexDone /\ cf.csl = NoFields) =>
        /\ cf.lines[1] = BibtexHead("misc", cf.key)
        /\ cf.key = SubSeq(<<"r", "e", "f", "_">>
                             \o TrimUnderscores(ReplaceNonAlnumRuns(cf.doi)),
                           1, Min(KEY_MAX, 4 + Len(TrimUnderscores(
                                                 ReplaceNonAlnumRuns(cf.doi)))))
        /\ cf.lines[Len(cf.lines)] = <<"}">>
        /\ IF cf.doi = <<>> THEN Len(cf.lines) = 2
           ELSE /\ Len(cf.lines) = 3
                /\ cf.lines[2] = <<"  ", "doi", " = {">>
                                   \o escapeBibtex(cf.doi) \o <<"},">>
        /\ cf.doi = DoiBrace =>
             cf.lines[2] = <<"  ", "doi", " = {", "a", "\\", "{", "b", "},">>
        /\ cf.doi = DoiBlank => cf.lines[2] = <<"  ", "doi", " = {", "},">>
        /\ cf.doi = DoiEscaped =>
             cf.lines[2] = <<"  ", "doi", " = {", "a", "\\", "\\", "\\", "}",
                             " ", "b", "},">>
        /\ (cf.doi # <<>> /\ \A i \in 1..Len(cf.doi) :
                               cf.doi[i] \notin {"\\", "{", "}", "\n", " ", "\t"})
             => cf.lines[2] = <<"  ", "doi", " = {">> \o cf.doi \o <<"},">>
  /\ (RisDone /\ cf.csl = NoFields) => cf.lines = RisSkeleton

\* cslToBibtex of a{b and a record with no field: three lines, the key
\* ref_a_b and the doi field with the brace escaped.
C22_Witness ==
  /\ BibtexDone
  /\ cf.csl = NoFields
  /\ cf.doi = DoiBrace
  /\ cf.lines = << <<"@", "misc", "{", "r", "e", "f", "_", "a", "_", "b", ",">>,
                   <<"  ", "doi", " = {", "a", "\\", "{", "b", "},">>,
                   <<"}">> >>

\* The value of type when it is a string, <<>> when it is absent or no string
TypeText(csl) ==
  IF "type" \in DOMAIN csl /\ csl.type.t = "string" THEN csl.type.str ELSE <<>>

\* C23: the entry type of cslToBibtex is article, book, incollection,
\* inproceedings, techreport or phdthesis for the six CSL types that have one
\* and misc for every other, absent or non-string type; the TY of cslToRis is
\* BOOK, CHAP or CPAPER for book, book-chapter and proceedings-article and JOUR
\* for everything else.
C23_EntryTypeMapping ==
  /\ BibtexDone =>
       /\ cf.lines[1][1] = "@"
       /\ cf.lines[1][2] =
            (CASE TypeText(cf.csl) = JOURNAL_ARTICLE -> "article"
               [] TypeText(cf.csl) = BOOK -> "book"
               [] TypeText(cf.csl) = BOOK_CHAPTER -> "incollection"
               [] TypeText(cf.csl) = PROCEEDINGS_ARTICLE -> "inproceedings"
               [] TypeText(cf.csl) = REPORT -> "techreport"
               [] TypeText(cf.csl) = THESIS -> "phdthesis"
               [] OTHER -> "misc")
  /\ RisDone =>
       cf.lines[1] =
         <<"TY", "  - ",
           (CASE TypeText(cf.csl) = BOOK -> "BOOK"
              [] TypeText(cf.csl) = BOOK_CHAPTER -> "CHAP"
              [] TypeText(cf.csl) = PROCEEDINGS_ARTICLE -> "CPAPER"
              [] OTHER -> "JOUR")>>

\* A thesis with every field has become a phdthesis entry.
C23_Witness ==
  /\ BibtexDone
  /\ TypeText(cf.csl) = THESIS
  /\ "title" \in DOMAIN cf.csl
  /\ cf.lines[1][2] = "phdthesis"

RisOrder == <<"TY", "AU", "TI", "JO", "PY", "VL", "IS", "SP", "DO", "UR", "ER">>
RankOf(tag) == CHOOSE i \in 1..Len(RisOrder) : RisOrder[i] = tag
TagAt(i) == cf.lines[i][1]
LinesOf(tag) == {i \in 1..Len(cf.lines) : TagAt(i) = tag}

\* The lines stand in the order of the tags, TY first and ER last, and only
\* AU may repeat
RisInOrder ==
  /\ cf.lines[1][1] = "TY"
  /\ cf.lines[Len(cf.lines)] = <<"ER", "  -">>
  /\ \A i \in 1..Len(cf.lines) : \E r \in 1..Len(RisOrder) : RisOrder[r] = TagAt(i)
  /\ \A i, j \in 1..Len(cf.lines) :
       i < j => \/ RankOf(TagAt(i)) < RankOf(TagAt(j))
                \/ TagAt(i) = "AU" /\ TagAt(j) = "AU"

\* The tags of the optional scalar fields and the key each is read from
RisKeys ==
  [TI |-> "title", JO |-> "container-title", PY |-> "issued", VL |-> "volume",
   IS |-> "issue", SP |-> "page", DO |-> "DOI", UR |-> "URL"]

\* C24 as stated: the lines are in the order TY, AU, TI, JO, PY, VL, IS, SP,
\* DO, UR, ER, there is one AU line per author of the record, and every other
\* tag is there exactly when the record has a value under its key.
C24_RisLinesAsStated ==
  RisDone =>
    /\ RisInOrder
    /\ \A tag \in DOMAIN RisKeys :
         (LinesOf(tag) # {}) <=> (RisKeys[tag] \in DOMAIN cf.csl)
    /\ ("author" \in DOMAIN cf.csl /\ cf.csl.author.t = "array") =>
          Cardinality(LinesOf("AU")) = Len(cf.csl.author.items)

IsText(value) == value.t = "string" /\ value.str # <<>>
HasText(members, key) == key \in DOMAIN members /\ IsText(members[key])

\* The first date part of issued, undefined when the record has none
FirstDatePart(csl) ==
  IF /\ "issued" \in DOMAIN csl
     /\ csl.issued.t = "object"
     /\ "date-parts" \in DOMAIN csl.issued.members
     /\ csl.issued.members["date-parts"].t = "array"
     /\ Len(csl.issued.members["date-parts"].items) > 0
     /\ csl.issued.members["date-parts"].items[1].t = "array"
     /\ Len(csl.issued.members["date-parts"].items[1].items) > 0
  THEN csl.issued.members["date-parts"].items[1].items[1]
  ELSE JUndefined

\* An author the formatter can name: an object whose family or given is a
\* string that is not empty
Nameable(author) ==
  author.t = "object" /\ (HasText(author.members, "family")
                            \/ HasText(author.members, "given"))

NameableAuthors(csl) ==
  IF "author" \in DOMAIN csl /\ csl.author.t = "array"
  THEN SelectSeq(csl.author.items, Nameable)
  ELSE <<>>

\* The one line of tag holds the text
OneLine(tag, text) ==
  \E i \in 1..Len(cf.lines) :
     LinesOf(tag) = {i} /\ cf.lines[i] = <<tag, "  - ">> \o text

\* C24, amended: the lines are in the order TY, AU, TI, JO, PY, VL, IS, SP,
\* DO, UR, ER with TY first and ER last; there is one AU line, in the order of
\* the record, per author that is an object with a non-empty string family or
\* given; TI, JO, VL, SP, DO and UR are there exactly when the value is a
\* non-empty string, IS when issue is a non-empty string or a number other
\* than 0, PY when the first date part of issued is a number or a non-empty
\* string.
C24_RisLines ==
  RisDone =>
    /\ RisInOrder
    /\ \A tag \in {"TI", "JO", "VL", "SP", "DO", "UR"} :
         IF HasText(cf.csl, RisKeys[tag])
         THEN OneLine(tag, cf.csl[RisKeys[tag]].str)
         ELSE LinesOf(tag) = {}
    /\ IF HasText(cf.csl, "issue") THEN OneLine("IS", cf.csl.issue.str)
       ELSE IF "issue" \in DOMAIN cf.csl /\ cf.csl.issue.t = "number"
                 /\ cf.csl.issue.num # 0
       THEN OneLine("IS", NumberToString(cf.csl.issue.num))
       ELSE LinesOf("IS") = {}
    /\ IF FirstDatePart(cf.csl).t = "number"
       THEN OneLine("PY", NumberToString(FirstDatePart(cf.csl).num))
       ELSE IF IsText(FirstDatePart(cf.csl))
       THEN OneLine("PY", FirstDatePart(cf.csl).str)
       ELSE LinesOf("PY") = {}
    /\ LinesOf("AU") = 2..(1 + Len(NameableAuthors(cf.csl)))
    /\ \A a \in 1..Len(NameableAuthors(cf.csl)) :
         cf.lines[1 + a] =
           <<"AU", "  - ">>
             \o JoinText(SelectSeq(<<StringOrEmpty(MemberOf(NameableAuthors(cf.csl)[a], "family")),
                                     StringOrEmpty(MemberOf(NameableAuthors(cf.csl)[a], "given"))>>,
                                   NonEmpty),
                         <<",", " ">>)

\* A record with every field and the authors Lee and Smith, J has given the
\* twelve lines in order.
C24_Witness ==
  /\ RisDone
  /\ FieldKeys \subseteq DOMAIN cf.csl
  /\ \A key \in FieldKeys : cf.csl[key] = FieldValue(key)
  /\ Len(NameableAuthors(cf.csl)) = 2
  /\ [i \in 1..Len(cf.lines) |-> TagAt(i)] =
       <<"TY", "AU", "AU", "TI", "JO", "PY", "VL", "IS", "SP", "DO", "UR", "ER">>
  /\ cf.lines[2] = <<"AU", "  - ", "L", "e", "e">>
  /\ cf.lines[3] = <<"AU", "  - ", "S", "m", "i", "t", "h", ",", " ", "J">>
  /\ cf.lines[6] = <<"PY", "  - ", "2", "0", "0", "1">>

\* ---------------------------------------------------------------------------
\* fetchWithRetry: attempts, waits and termination
\* ---------------------------------------------------------------------------

\* Every fetch settles and every timer fires
SpecRetryFair ==
  /\ SpecRetry
  /\ WF_vars(FetchResponds \/ FetchThrows)
  /\ WF_vars(SleepEnds)

\* fetch was invoked at most maxRetries + 1 times; one wait was started after
\* every attempt but the one in progress or the one that ended the call
AttemptsAndWaits ==
  /\ fetchCalls <= maxRetries + 1
  /\ fwPc = "sleeping" => (sleeps = fetchCalls /\ fetchCalls <= maxRetries)
  /\ fwPc \in {"fetching", "returned", "thrown"} => sleeps = fetchCalls - 1

\* C25: whatever the attempts yield, fetch is invoked at most maxRetries + 1
\* times (7 by default), a wait stands between any two attempts and none after
\* the last, and a call in progress ends, by returning or by raising.
C25_BoundedAttemptsAndTermination ==
  /\ []AttemptsAndWaits
  /\ (fwPc \in {"fetching", "sleeping"}) ~> Ended

\* Three attempts of mixed outcome, two waits between them, and the third
\* ended the call by raising.
C25_Witness ==
  /\ fwPc = "thrown"
  /\ maxRetries = 2
  /\ fetchCalls = 3
  /\ sleeps = 2
  /\ seen[503] = 1
  /\ seen[THREW] = 2

\* C29 as stated: the wait before the next attempt is a base delay plus a
\* jitter of 0 to 250 ms, the base being the seconds of Retry-After when the
\* response has the header and it parses as a number that is not negative, and
\* 750 ms times 2^attempt in every other case.
C29_DelayAsStated ==
  fwPc = "sleeping" =>
    LET header == IF lastOutcome.kind = "response" /\ lastOutcome.retryAfter.present
                  THEN NumberOf(lastOutcome.retryAfter.text)
                  ELSE [finite |-> FALSE, value |-> 0]
        base == IF header.finite /\ header.value >= 0
                THEN header.value * 1000
                ELSE BACKOFF_BASE_MS * Pow2(attempt)
    IN delayMs \in base..(base + JITTER_RANGE_MS)

-----------------------------------------------------------------------------
(* The progress of one resolution *)

\* C26: during one resolution, from the reset at 0 to the completion at 100,
\* no step lowers state.progress: not a milestone update, not the interval,
\* not a continuation of either worker.  Only the reset of the next call to
\* fetchReferences brings it back to 0.
C26_ProgressNeverDecreases ==
  [][(\E doi \in RootDois : FetchReferencesInvoke(doi))
       \/ state'.progress >= state.progress]_vars

\* The interval has raised the progress to its ceiling, one of three metadata
\* requests has settled and the two workers wait for the other two.
C26_Witness ==
  /\ frPc = "awaitMeta"
  /\ tickTimer
  /\ Len(citedDois) = 3
  /\ pool.completed = 1
  /\ Len(pool.inflight) = 2
  /\ state.progress = 38

\* 30 + Math.round(completed / total * 65), written out
BandValue(completed, total) == 30 + ((2 * 65 * completed + total) \div (2 * total))

\* The milestones as they show in the states between the awaits, and the
\* ratio of the items that have completed, scaled into the band (the interval
\* may have added up to 8 before the first of them)
ProgressPolicy ==
  /\ frPc = "awaitRefs" => state.progress = 0
  /\ (frPc = "done" /\ state.error \in {NOT_ITERABLE_MSG, NO_DOIS_MSG})
       => state.progress = 10
  /\ frPc = "awaitTitle" => state.progress = 20
  /\ frPc = "awaitMeta" =>
       /\ state.progress \in 30..95
       /\ pool.completed = 0 => state.progress \in 30..38
       /\ pool.completed > 0 =>
            \E done \in 1..pool.completed :
              \/ state.progress = BandValue(done, Len(citedDois))
              \/ /\ state.progress \in 30..38
                 /\ state.progress > BandValue(done, Len(citedDois))

\* C30 as stated: within one resolution the progress is 10 once the
\* references are fetched, 20 once the cited DOIs are extracted, 30 once the
\* title step has finished, and from the start of metadata resolution to
\* completion every value lies in 30..95 and is the completed/total ratio of
\* an item that has completed, scaled into that band.
C30_ProgressPolicy ==
  /\ []ProgressPolicy
  /\ [][TitleSettle => state'.progress = 30]_vars

-----------------------------------------------------------------------------
(* The claims of the workers of mapWithConcurrency *)

\* The indexes mapper was called with: the calls that settled, then the
\* calls in flight
Invoked ==
  completionOrder \o [k \in 1..Len(pool.inflight) |-> pool.inflight[k].index]

\* Every worker has left its loop and no mapper call is in flight
PoolSettled ==
  /\ pool.status \in {"resolved", "rejected"}
  /\ pool.inflight = <<>>
  /\ \A w \in 1..pool.workers : pool.cur[w] = -1

\* C27: under every interleaving of the workers each index 0..n-1 is claimed
\* by exactly one worker and mapper is called exactly once for each item, none
\* twice and none skipped: at every moment the calls made are for the indexes
\* 0..nextIndex-1, one call each, each with its own item, a call in flight
\* belongs to the one worker that claimed its index, and once the workers are
\* through the calls are for 0..n-1.  For an empty list neither mapper nor
\* onItemDone is called.
C27_EveryItemOnce ==
  pool.status # "idle" =>
    /\ Len(Invoked) = pool.nextIndex
    /\ \A i \in 0..(pool.nextIndex - 1) :
         Cardinality({j \in 1..Len(Invoked) : Invoked[j] = i}) = 1
    /\ pool.nextIndex <= Len(pool.items)
    /\ \A k \in 1..Len(pool.inflight) :
         /\ pool.inflight[k].item = pool.items[pool.inflight[k].index + 1]
         /\ pool.cur[pool.inflight[k].worker] = pool.inflight[k].index
         /\ \A j \in 1..Len(pool.inflight) :
              pool.inflight[j].worker = pool.inflight[k].worker => j = k
    /\ PoolSettled =>
         /\ pool.status = "resolved"
         /\ Len(Invoked) = Len(pool.items)
         /\ Range(Invoked) = 0..(Len(pool.items) - 1)
         /\ pool.completed = Len(pool.items)
    /\ Len(pool.items) = 0 =>
         /\ Invoked = <<>>
         /\ pool.onItemDoneCalls = <<>>
         /\ pool.status = "resolved"

\* Three DOIs through two workers, completed out of order, the request of
\* the first one failed and was caught by the mapper.
C27_Witness ==
  /\ pool.status = "resolved"
  /\ pool.workers = 2
  /\ Len(pool.items) = 3
  /\ completionOrder = <<1, 0, 2>>
  /\ DOMAIN pool.returned.slot[0] = {"doi"}
  /\ "csl" \in DOMAIN pool.returned.slot[1]

-----------------------------------------------------------------------------
(* generateCitations called while earlier calls are in flight: the effect of
   HomePage calls it whenever the selected format changes, and the select is
   not disabled while a generation runs.  The calls share the session and
   nothing else: each has its own format, its own citations array and its
   own cursor, and each ends by writing its content to citationText. *)

MaxCalls == 2

\* What the effect (a format, singleFile) and the Generate button (a style,
\* isPlainText) call generateCitations with
GcOptions == {o \in OptionSet : o.singleFile}

GcInit ==
  /\ ExIdle
  /\ FwIdle
  /\ pool = [status |-> "idle"]
  /\ completionOrder = <<>>
  /\ rejections = <<>>
  /\ EarlierIdle
  /\ PkIdle
  /\ PageIdle
  /\ FnIdle
  /\ BdIdle
  /\ CfIdle
  /\ gc = [pc |-> "open", calls |-> <<>>]
  \* the session as a resolution left it
  /\ frPc = "idle"
  /\ frDoi = ""
  /\ citedDois = <<>>
  /\ tickTimer = FALSE
  /\ uiUpdated = FALSE
  /\ lastCompleted = 0
  /\ apiTokens = <<>>
  /\ refsOutcome = "none"
  /\ failedItems = {}
  /\ requests = NoRequests
  /\ \E refs \in SeqsUpTo(PkRefSet, MaxPkRefs) :
       state = [isLoading |-> FALSE,
                error |-> (IF refs = <<>> THEN NO_REFERENCES_MSG ELSE NULL),
                progress |-> (IF refs = <<>> THEN 0 ELSE PROGRESS_DONE),
                mainDoi |-> "10.1/root", paperTitle |-> NULL,
                references |-> refs, citationText |-> <<>>,
                generatingCitations |-> FALSE]

gcRest == <<exVars, fwVars, mapVars, pool, frPc, frDoi, citedDois, tickTimer,
            uiUpdated, lastCompleted, apiTokens, refsOutcome, failedItems,
            requests, earlier, pk, page, fn, bd, cf>>

\* generateCitations(options) is called, whatever the earlier calls are
\* doing, and runs to its first request or to its end
GenerateCitationsStarts ==
  /\ gc.pc = "open"
  /\ Len(gc.calls) < MaxCalls
  /\ \E options \in GcOptions :
       IF Len(state.references) = 0
       THEN /\ gc' = [gc EXCEPT !.calls =
                        Append(@, [PkStart("generateCitations", options, state)
                                     EXCEPT !.pc = "done",
                                            !.returned = JsValue(<<>>)])]
            /\ UNCHANGED state
       ELSE LET m == GenerateBegin([s |-> state,
                                    p |-> PkStart("generateCitations", options, state)])
            IN /\ gc' = [gc EXCEPT !.calls = Append(@, m.p)]
               /\ state' = m.s
  /\ UNCHANGED gcRest

\* The request one of the calls waits for settles, and that call goes on to
\* its next request or to its end
GenerateConversionSettles ==
  /\ gc.pc = "open"
  /\ \E k \in 1..Len(gc.calls), outcome \in PkOutcomes :
       /\ gc.calls[k].pc = "awaitConvert"
       /\ \E j \in 1..Len(gc.calls[k].inflight) :
            LET call == gc.calls[k]
                ref == call.references[call.inflight[j]]
                citation == convertDoiToCitation(ref.doi, call.options.format, outcome)
                m == GenerateResume([s |-> state,
                                     p |-> [call EXCEPT !.pc = "running"]],
                                    j, citation)
            IN /\ gc' = [gc EXCEPT !.calls[k] = m.p]
               /\ state' = m.s
  /\ UNCHANGED gcRest

GcNext == GenerateCitationsStarts \/ GenerateConversionSettles

SpecGenerate == GcInit /\ [][GcNext]_vars

\* Every call that was started has returned, and there was more than one
AllGenerated ==
  /\ gc.pc = "open"
  /\ Len(gc.calls) > 1
  /\ \A k \in 1..Len(gc.calls) : gc.calls[k].pc = "done"

\* C28: when calls of generateCitations overlap, then once all of them have
\* settled citationText holds what the call started last returned, not what
\* an earlier call that finished later returned.
C28_LatestCallWinsAsStated ==
  AllGenerated => state.citationText = gc.calls[Len(gc.calls)].returned.value

-----------------------------------------------------------------------------
(* The text a single-file download saves *)

\* The citation c is what format asks for, for the reference ref
InFormat(c, format, ref) ==
  IF c.kind \in {"bibtex", "ris"}
  THEN GenerateLocally(format, ref) /\ c = LocalCitation(format, ref)
  ELSE c.format = format

\* A call of downloadReferences that saved one text
SavedText ==
  /\ pk.pc = "done"
  /\ pk.op = "downloadReferences"
  /\ Len(pk.saved) = 1
  /\ pk.saved[1].kind = "text"

\* C31: in single-file mode the text downloadReferences saves is the citation
\* text of the current references in the format that call was given: one
\* citation per reference, each in options.format, also when the stored
\* citationText was made for another format or style.
C31_SavedTextInRequestedFormat ==
  SavedText =>
    /\ Len(pk.saved[1].content) = Len(pk.references)
    /\ \A i \in 1..Len(pk.references) :
         InFormat(pk.saved[1].content[i], pk.options.format, pk.references[i])

-----------------------------------------------------------------------------
(* The interval of fetchReferences *)

\* The interval of the latest call or of the one before it fires
TickFires == Tick \/ EarlierTick

\* No interval is left running by a call whose first metadata item is through
TickStopped ==
  /\ (frPc = "awaitMeta" /\ pool.completed >= 1) => ~tickTimer
  /\ (earlier.pc = "awaitMeta" /\ earlier.pool.completed >= 1) => ~earlier.tickTimer

\* C32 as stated: a firing of the interval changes nothing but progress, raises it by
\* exactly 1 when it raises it, never to more than 38, leaves the session as
\* it is when isLoading is false or progress is 38 or more, and no longer
\* fires once the first metadata item of its call has completed.
C32_TickPolicy ==
  /\ [][TickFires =>
          \/ state' = state
          \/ /\ state' = [state EXCEPT !.progress = state.progress + 1]
             /\ state'.progress <= 38]_vars
  /\ [][(TickFires /\ (~state.isLoading \/ state.progress >= 38))
          => state' = state]_vars
  /\ []TickStopped

-----------------------------------------------------------------------------
(* How a call of fetchReferences ends.  Every request the call waits for
   settles: the continuations after the awaits are taken when they can be. *)

SpecSessionFair ==
  /\ SpecSession
  /\ WF_vars(ReferencesSettle)
  /\ WF_vars(TitleSettle)
  /\ WF_vars(MetadataSettle)

InFlight == frPc \in {"awaitRefs", "awaitTitle", "awaitMeta"}

\* The two ways a call ends
ErrorOutcome ==
  /\ state.error \in {NO_REFERENCES_MSG, NO_DOIS_MSG, NOT_ITERABLE_MSG}
  /\ state.references = <<>>
  /\ state.progress < PROGRESS_DONE
NormalOutcome ==
  /\ state.error = NULL
  /\ state.progress = PROGRESS_DONE
  /\ Len(state.references) = Len(citedDois)

Ends ==
  frPc = "done" =>
    /\ ~state.isLoading
    /\ ErrorOutcome \/ NormalOutcome
    /\ failedItems # {} => NormalOutcome
    /\ ErrorOutcome <=> pool.status = "idle"

\* C33: provided every request settles, every call of fetchReferences ends
\* with isLoading false: either with error one message, no references and
\* progress below 100, or with error null and progress 100.  Items whose
\* metadata fetch failed never give the error outcome, and a call made after
\* an error outcome starts from the reset session, error cleared, exactly as
\* a first call does.
C33_EveryCallEnds ==
  /\ []Ends
  /\ [][FetchReferencesCall =>
          /\ state' = [InitialState EXCEPT !.isLoading = TRUE, !.mainDoi = frDoi']
          /\ frPc' = "awaitRefs"]_vars
  /\ InFlight ~> (frPc = "done" /\ ~state.isLoading)

\* A call has ended normally although the metadata of every one of its three
\* cited DOIs failed to arrive.
C33_Witness ==
  /\ frPc = "done"
  /\ NormalOutcome
  /\ Len(citedDois) = 3
  /\ failedItems = {0, 1, 2}

-----------------------------------------------------------------------------
(* The title of the root DOI *)

\* getPaperMetadata(doi) came back with null: the request threw, the status
\* was not a 2xx, or the body was null or no JSON
TitleFetchFails(outcome) == getPaperMetadata(outcome).isNull

\* C34: when the fetch of the root DOI's own title fails, paperTitle stays
\* null, no error is set, and the metadata of the cited DOIs is resolved as
\* after a title that arrived: the same pool over the same cited DOIs is
\* started, and the call completes with one record per cited DOI.
C34_TitleFailureSwallowed ==
  /\ [][\A bad \in MetaOutcomes :
          (TitleFetchFails(bad) /\ TitleSettleWith(bad)) =>
            /\ state' = [state EXCEPT !.progress = 30]
            /\ state'.paperTitle = NULL
            /\ state'.error = NULL
            /\ frPc' = "awaitMeta"
            /\ citedDois' = citedDois
            /\ pool' = PoolStart(citedDois, 2, FALSE)
            /\ tickTimer']_vars
  /\ []((Resolved /\ state.paperTitle = NULL) =>
          /\ state.error = NULL
          /\ state.progress = 100
          /\ \A i \in 1..Len(citedDois) : state.references[i].doi = citedDois[i])

\* A call has completed with two records and no title.
C34_Witness ==
  /\ Resolved
  /\ state.paperTitle = NULL
  /\ requests.title = 1
  /\ Len(state.references) = 2
  /\ Len(citedDois) = 2

-----------------------------------------------------------------------------
(* The calls of onItemDone *)

\* The indexes whose mapper call resolved
ResolvedIndexes ==
  {completionOrder[i] : i \in 1..Len(completionOrder)}
    \ {rejections[j].index : j \in 1..Len(rejections)}

\* C35: with onItemDone supplied it is called once after each item that
\* completes, with the counts 1, 2, ... in that order and the length of the
\* list as total, the call (n, n) being made before the result resolves;
\* without it nothing is called.  Either way the same slots of results are
\* filled with what mapper gave for them, and the resolved result is the
\* mapper value of every item in order.
C35_OnItemDoneCounts ==
  pool.status # "idle" =>
    /\ pool.completed = Cardinality(ResolvedIndexes)
    /\ pool.onItemDoneCalls =
         (IF pool.hasOnItemDone
          THEN [i \in 1..pool.completed |-> <<i, Len(pool.items)>>]
          ELSE <<>>)
    /\ DOMAIN pool.results.slot = ResolvedIndexes
    /\ \A k \in ResolvedIndexes :
         pool.results.slot[k] = MapperValue(pool.items[k + 1], k)
    /\ pool.status = "resolved" =>
         /\ pool.completed = Len(pool.items)
         /\ pool.returned = pool.results
         /\ (pool.hasOnItemDone /\ Len(pool.items) > 0) =>
              pool.onItemDoneCalls[Len(pool.onItemDoneCalls)]
                = <<Len(pool.items), Len(pool.items)>>

\* Three items through two workers with onItemDone: the items completed in
\* the order 1, 2, 0 and the callback counted 1, 2, 3.
C35_Witness ==
  /\ pool.status = "resolved"
  /\ pool.hasOnItemDone
  /\ pool.workers = 2
  /\ completionOrder = <<1, 2, 0>>
  /\ pool.onItemDoneCalls = <<(<<1, 3>>), (<<2, 3>>), (<<3, 3>>)>>

-----------------------------------------------------------------------------
(* The requests in flight.  From a session that a resolution has left with
   references, either fetchReferences is called again, or generateCitations
   is called, also again while its earlier calls wait. *)

\* A resolution runs while no citations are asked for
NoGeneration == gc.calls = <<>>
\* Citations are asked for while no resolution runs
NoResolution == frPc = "idle"

CapsNext ==
  \/ (NoGeneration /\ FetchReferencesCall)
  \/ (NoGeneration /\ ReferencesSettle)
  \/ (NoGeneration /\ TitleSettle)
  \/ (NoGeneration /\ Tick)
  \/ (NoGeneration /\ MetadataSettle)
  \/ (NoResolution /\ GenerateCitationsStarts)
  \/ (NoResolution /\ GenerateConversionSettles)

SpecCaps == GcInit /\ [][CapsNext]_vars

RECURSIVE SumOver(_, _)
SumOver(f, n) == IF n = 0 THEN 0 ELSE f[n] + SumOver(f, n - 1)

\* The conversions in flight for the formats that are not made locally
RemoteInFlight ==
  SumOver([k \in 1..Len(gc.calls) |->
             IF LocalFormat(gc.calls[k].options.format) THEN 0
             ELSE Len(gc.calls[k].inflight)],
          Len(gc.calls))

\* C36 as stated: at any time at most 2 metadata requests are in flight
\* while cited DOIs are resolved, and at most 1 conversion is in flight while
\* citations are generated for a format that is not made locally.
C36_CapsAtAnyTimeAsStated ==
  /\ frPc = "awaitMeta" => Len(pool.inflight) <= 2
  /\ RemoteInFlight <= 1

\* C36: every call keeps its own cap: a call of fetchReferences has at most
\* 2 metadata requests in flight, and a call of generateCitations has at most
\* 1 conversion in flight, whatever the format.  Calls of generateCitations
\* that overlap each have their own, so their conversions add up.
C36_CapsPerCall ==
  /\ frPc = "awaitMeta" =>
       /\ Len(pool.inflight) <= 2
       /\ pool.status = "running" => Len(pool.inflight) = Min(2, Len(citedDois) - pool.completed)
  /\ \A k \in 1..Len(gc.calls) :
       /\ Len(gc.calls[k].inflight) <= 1
       /\ gc.calls[k].pc = "awaitConvert" <=> Len(gc.calls[k].inflight) = 1

\* Both workers of a resolution of three cited DOIs wait for an answer, the
\* third DOI unclaimed.
C36_Witness ==
  /\ frPc = "awaitMeta"
  /\ Len(citedDois) = 3
  /\ Len(pool.inflight) = 2
  /\ pool.nextIndex = 2

-----------------------------------------------------------------------------
(* The interval after the call *)

\* C37: once a call of fetchReferences has settled its interval is no longer
\* running, and nothing the call left behind touches the loading flag, the
\* progress, the error or the references of the session afterwards.
C37_NoTickAfterSettled ==
  /\ [](frPc = "done" => ~tickTimer)
  /\ [][(frPc = "done" /\ frPc' = "done") =>
          /\ state'.progress = state.progress
          /\ state'.isLoading = state.isLoading
          /\ state'.error = state.error
          /\ state'.references = state.references]_vars

\* A call over two cited DOIs has completed although both metadata fetches
\* failed and no progress callback was called; its interval had been started
\* with the pool.
C37_Witness ==
  /\ Resolved
  /\ Len(citedDois) = 2
  /\ failedItems = {0, 1}
  /\ ~tickTimer

-----------------------------------------------------------------------------
(* fetchWithRetry with outcomes of both kinds *)

\* The call has ended with its last permitted attempt
EndedOnLastAttempt ==
  /\ fwPc \in {"returned", "thrown"}
  /\ fetchCalls = maxRetries + 1

\* C38: the last attempt alone decides how fetchWithRetry ends.  When attempt
\* maxRetries+1 throws, the call raises what it threw (a new Error when that
\* is no Error instance), whatever the earlier attempts got; when it gets a
\* response, retryable or not, the call returns that response, whatever the
\* earlier attempts threw.
C38_LastAttemptDecides ==
  EndedOnLastAttempt =>
    /\ lastOutcome.kind = "error" =>
         /\ fwPc = "thrown"
         /\ fwResult.kind = "error"
         /\ lastOutcome.isError => fwResult = lastOutcome
         /\ ~lastOutcome.isError => fwResult = GenericError
    /\ lastOutcome.kind = "response" =>
         /\ fwPc = "returned"
         /\ fwResult = lastOutcome

\* The third of three attempts got a 503 after a throw and a 429, or threw
\* an Error after a 429 and a throw.
C38_Witness ==
  /\ EndedOnLastAttempt
  /\ maxRetries = 2
  /\ seen[THREW] >= 1
  /\ seen[429] >= 1
  /\ \/ fwPc = "thrown" /\ seen[THREW] = 2 /\ fwResult.isError
     \/ fwPc = "returned" /\ fwResult.status = 503

-----------------------------------------------------------------------------
(* What downloadReferences leaves of the session *)

\* A step of a call of downloadReferences: its start, or the end of one of
\* the conversions it waits for
DownloadStep == pk' # pk /\ pk'.op = "downloadReferences"

\* A call of downloadReferences that found references has ended
DownloadEnded ==
  /\ pk.pc = "done"
  /\ pk.op = "downloadReferences"
  /\ Len(pk.references) > 0

\* C40: downloadReferences called with no references returns null and leaves
\* every field of the session as it was; called with references it changes
\* neither references nor mainDoi nor paperTitle at any of its steps, and
\* when it has ended, after a save, after failed conversions or after the
\* catch of an exception, isLoading is false and progress is 0.
C40_DownloadFrame ==
  /\ [][DownloadStep =>
         /\ state'.references = state.references
         /\ state'.mainDoi = state.mainDoi
         /\ state'.paperTitle = state.paperTitle
         /\ Len(state.references) = 0 =>
              /\ state' = state
              /\ pk'.pc = "done"
              /\ pk'.returned = JsNull]_vars
  /\ [](DownloadEnded => ~state.isLoading /\ state.progress = 0)

\* A call for an archive of two references asked for a conversion, which
\* failed or not, put both files in the archive, and saveAs threw: the catch
\* wrote the error and the finally ended the call.
C40_Witness ==
  /\ DownloadEnded
  /\ pk.saveFails
  /\ state.error = SAVE_ERROR
  /\ pk.zipRequests # {}
  /\ pk.count = 2
  /\ pk.returned = JsUndefined

-----------------------------------------------------------------------------
(* The resolution and the packaging calls side by side *)

\* The session of a resolved paper with two references, the first of them
\* without metadata
AppInit ==
  /\ PkInit
  /\ state.paperTitle = NULL
  /\ state.references = <<RefDoiOnly(PkDoiA), RefWithCsl(PkDoiB)>>

\* The references in the session are those of AppInit, or there are none: a
\* packaging call can be started
Packable == frPc = "idle" \/ Len(state.references) = 0

\* The steps of fetchReferences, of the interval and of the progress callback
\* between the steps of generateCitations and downloadReferences, the calls
\* of which keep the references they were started with
AppNext ==
  \/ (PkIdle \/ pk.pc # "idle") /\ FetchReferencesCall
  \/ ReferencesSettle /\ Len(apiTokens') <= MaxOverlapRefs
  \/ TitleSettle
  \/ Tick
  \/ MetadataSettle
  \/ Packable /\ GenerateCitationsCall
  \/ Packable /\ DownloadReferencesCall
  \/ Packable /\ DownloadReferencesCallSaveThrows
  \/ ConversionSettles
  \/ ArchiveGenerated

SpecApp == AppInit /\ [][AppNext]_vars

\* C39: whatever steps of fetchReferences, of its interval and progress
\* callback, of generateCitations and of downloadReferences have been taken,
\* in whatever order, progress is a whole number from 0 to 100.
C39_ProgressInRange == state.progress \in 0..100

\* The archive loop of a download wrote 50 for the first of its two files
\* while a resolution started after it waits for metadata with its interval
\* running.
C39_Witness ==
  /\ state.progress = 50
  /\ pk.pc = "awaitConvert"
  /\ pk.loop = "zip"
  /\ frPc = "awaitMeta"
  /\ tickTimer
  /\ state.isLoading

====
